---- MODULE Spec2Model ----
(***************************************************************************)
(* A model of the groupcache core: the singleflight Group                  *)
(* (singleflight/singleflight.go), the consistent-hash ring                *)
(* (consistenthash/consistenthash.go) and the HTTP peer pool (http.go).    *)
(***************************************************************************)
EXTENDS Integers, Sequences, FiniteSets, TLC

(***************************************************************************)
(* Bounds of the model.                                                    *)
(***************************************************************************)
\* number of goroutines calling Group.Do
NumProcs == 3
\* total number of Do calls started in one behaviour
MaxCalls == 3
\* goroutines and Do calls of the liveness check
LiveProcs == 2
LiveCalls == 2

\* goroutines and Get calls of the Group engine
GetProcs == 2
GetCalls == 2
\* largest cacheBytes of the Group, in entries (every entry has the same size)
MaxCacheBytes == 2
\* number of calls made on one sink
SinkOps == 2
\* largest length of a string, a byte slice or an encoded message
MaxLen == 2
\* number of registration calls made one after the other
MaxRegs == 3
\* number of goroutines that each make one registration call
RegProcs == 2
\* largest number of virtual nodes per peer (Map.replicas)
MaxReplicas == 2
\* largest length of the ring (len(Map.keys))
MaxRing == 4
\* number of peers passed to Add in one behaviour
MaxAdded == 3
\* largest number of peers passed to one Add or Set call
MaxArgs == 2
\* number of goroutines calling HTTPPool.Set and HTTPPool.PickPeer
PoolProcs == 2
\* total number of Set and PickPeer calls started in one behaviour
MaxPoolOps == 3
\* the hash function ranges over 0 .. HashSize-1 (uint32 in the code)
HashSize == 4

Procs == 1..NumProcs
\* the keys passed to Do
Keys == {"k1", "k2"}
\* no goroutine / no pointer
NoProc == 0
\* the error values fn can return: nil or a non-nil error
NilErr == "nil"
Errs == {NilErr, "err"}
\* the zero value of an interface{} result
NilVal == 0

VARIABLES
  mu,        \* Group.mu: the goroutine holding the mutex, or NoProc
  m,         \* Group.m: [isNil |-> the map is nil, tab |-> key -> *call]
  calls,     \* the heap of call structs: sequence of [wg, val, err]
  pc,        \* per goroutine: position inside Do
  key,       \* per goroutine: the key argument of its Do call
  c,         \* per goroutine: the local variable c (index into calls, 0 = unset)
  ret,       \* per goroutine: the (value, error) pair its last Do returned
  role,      \* per goroutine: "pioneer" / "follower" / "none" in its current Do
  fnOut,     \* per call struct: the pair fn returned for it, <<>> until fn returns
  fnRuns,    \* number of executions of fn started so far
  nCalls,    \* number of Do calls started so far
  ring,      \* a consistenthash.Map: [replicas, keys, hashMap]
  hashTab,   \* Map.hash: the hash function, as the table of the strings hashed so far
  added,     \* the peers passed to Map.Add so far, in order
  lookup,    \* the last Map.Get since the last Add: <<key, result>>, or <<>>
  poolMu,       \* HTTPPool.mu: the goroutine holding it, or NoProc
  poolReplicas, \* HTTPPool.opts.Replicas
  poolPeers,    \* HTTPPool.peers: a consistenthash.Map
  httpGetters,  \* HTTPPool.httpGetters: peer -> *httpGetter
  ppc,          \* per goroutine: position inside Set or PickPeer
  parg,         \* per goroutine: the peers of its Set call or the key of its PickPeer call
  ppeer,        \* per goroutine: the local variable peer of PickPeer
  pret,         \* per goroutine: the (ProtoGetter, bool) pair of its PickPeer call
  setId,        \* per goroutine: the serial number of its Set call
  nSets,        \* number of Set calls started so far
  nOps,         \* number of Set and PickPeer calls started so far
  lastSet,      \* the last Set call that returned: [args, id] (id 0: none yet)
  snap,         \* per goroutine: lastSet when its PickPeer took the mutex
  cacheBytes,   \* Group.cacheBytes
  mainCache,    \* Group.mainCache: sequence of <<key, value>>, newest first
  hotCache,     \* Group.hotCache: sequence of <<key, value>>, newest first
  ranLoader,    \* the call structs whose load function invoked the backend loader
  lost,         \* the values that were loaded and are not cached: failed, not stored or evicted
  portPicker,   \* the package variable portPicker
  httpPoolMade, \* the package variable httpPoolMade
  regLog,       \* the registration calls that have finished, in order
  lastPeers,    \* the last getPeers call and its result
  rpc,          \* per goroutine: where it is in its registration call
  rop,          \* per goroutine: the function it called
  rarg,         \* per goroutine: the argument fn of its call
  heap,         \* the byte arrays allocated so far; a slice names one by its index
  sink,         \* the sink and the destination its constructor was given
  lastCall,     \* the last call made on the sink
  argB,         \* the slice the caller passed to the last SetBytes
  nSinkOps,     \* number of calls made on the sink
  argMutated,   \* the caller has changed the bytes of argB after the call
  dstWritten    \* the caller has written to *dst after the call

sfVars == <<mu, m, calls, pc, key, c, ret, role, fnOut, fnRuns, nCalls>>
ringVars == <<ring, added, lookup>>
poolVars == <<poolMu, poolReplicas, poolPeers, httpGetters, ppc, parg, ppeer, pret,
              setId, nSets, nOps, lastSet, snap>>

getVars == <<cacheBytes, mainCache, hotCache, ranLoader, lost>>

regVars == <<portPicker, httpPoolMade, regLog, lastPeers, rpc, rop, rarg>>

sinkVars == <<heap, sink, lastCall, argB, nSinkOps, argMutated, dstWritten>>

vars == <<sfVars, hashTab, ringVars, poolVars, getVars, regVars, sinkVars>>

\* what the operations of one component leave alone
notSF == <<hashTab, ringVars, poolVars, getVars, regVars, sinkVars>>
notRing == <<sfVars, poolVars, getVars, regVars, sinkVars>>
notPool == <<sfVars, ringVars, getVars, regVars, sinkVars>>
notGet == <<hashTab, ringVars, poolVars, regVars, sinkVars>>
notReg == <<sfVars, hashTab, ringVars, poolVars, getVars, sinkVars>>
notSink == <<sfVars, hashTab, ringVars, poolVars, getVars, regVars>>

----------------------------------------------------------------------------
(***************************************************************************)
(* consistenthash.Map                                                      *)
(*                                                                         *)
(* A string is a sequence of one-character strings.  The hash function is  *)
(* a parameter of New; it is an arbitrary function into 0 .. HashSize-1,   *)
(* kept as the table of the strings hashed so far: the hash of a string is *)
(* fixed the first time Add computes it and is the same ever after.        *)
(* int(uint32) is the identity (int is 64 bits wide).                      *)
(***************************************************************************)

\* the least replicas passed to New: New takes any int
MinReplicas == -1

\* the peers passed to Add
Peers == {<<"A">>, <<"B">>, <<"C">>}
\* a fixed order of the peers
PeerOrder == <<<<"A">>, <<"B">>, <<"C">>>>
\* the empty string
EmptyStr == <<>>

HashVals == 0..(HashSize - 1)

DigitChars == <<"0", "1", "2", "3", "4", "5", "6", "7", "8", "9">>

\* strconv.Itoa(i) for i >= 0
RECURSIVE Itoa(_)
Itoa(i) ==
  IF i < 10 THEN <<DigitChars[i + 1]>>
  ELSE Itoa(i \div 10) \o <<DigitChars[(i % 10) + 1]>>

\* the keys looked up: one key for every value of the hash function
LookupKey(j) == <<"k">> \o Itoa(j)
LookupKeys == {LookupKey(j) : j \in HashVals}

\* the hash function on the lookup keys
KeyHashTab == [s \in LookupKeys |-> CHOOSE j \in HashVals : s = LookupKey(j)]

\* strconv.Itoa(i) + key
ReplicaStr(i, peer) == Itoa(i) \o peer

\* m.hash([]byte(s)) converted to int
HashOf(h, s) == h[s]

\* consistenthash.New(replicas, fn)
New(replicas) == [replicas |-> replicas, keys |-> <<>>, hashMap |-> <<>>]

\* Map.IsEmpty
IsEmpty(mp) == Len(mp.keys) = 0

\* a map store that keeps the value of a key already present
MapPutIfAbsent(f, k, v) == [x \in DOMAIN f \cup {k} |-> IF x \in DOMAIN f THEN f[x] ELSE v]

\* m.hashMap[hash] = key
MapPut(f, k, v) == [x \in DOMAIN f \cup {k} |-> IF x = k THEN v ELSE f[x]]

\* insertion of one int into a sorted sequence
RECURSIVE InsertSorted(_, _)
InsertSorted(sq, x) ==
  IF sq = <<>> THEN <<x>>
  ELSE IF x <= Head(sq) THEN <<x>> \o sq
  ELSE <<Head(sq)>> \o InsertSorted(Tail(sq), x)

\* sort.Ints
RECURSIVE SortInts(_)
SortInts(sq) ==
  IF sq = <<>> THEN <<>> ELSE InsertSorted(SortInts(Tail(sq)), Head(sq))

\* the inner loop of Add: for i := 0; i < m.replicas; i++
RECURSIVE AddReplicas(_, _, _, _)
AddReplicas(mp, peer, i, h) ==
  IF i >= mp.replicas THEN mp
  ELSE LET hash == HashOf(h, ReplicaStr(i, peer))
       IN  AddReplicas([mp EXCEPT !.keys = Append(@, hash),
                                  !.hashMap = MapPut(@, hash, peer)],
                       peer, i + 1, h)

\* the outer loop of Add, skipping a peer the ring already has
RECURSIVE AddPeersSkipsKnown(_, _, _)
AddPeersSkipsKnown(mp, ps, h) ==
  IF ps = <<>> THEN mp
  ELSE IF \E x \in DOMAIN mp.hashMap : mp.hashMap[x] = Head(ps)
       THEN AddPeersSkipsKnown(mp, Tail(ps), h)
       ELSE AddPeersSkipsKnown(AddReplicas(mp, Head(ps), 0, h), Tail(ps), h)

\* the outer loop of Add: for _, key := range keys
RECURSIVE AddPeers(_, _, _)
AddPeers(mp, ps, h) ==
  IF ps = <<>> THEN mp
  ELSE AddPeers(AddReplicas(mp, Head(ps), 0, h), Tail(ps), h)

\* Add without the final sort.Ints(m.keys)
AddNoSort(mp, ps, h) == AddPeers(mp, ps, h)

\* Map.Add(keys...)
Add(mp, ps, h) ==
  LET a == AddPeers(mp, ps, h)
  IN  [a EXCEPT !.keys = SortInts(@)]

\* sort.Search(n, f) with f(i) = (m.keys[i] >= hash); indices from 0
RECURSIVE Search(_, _, _, _)
Search(ks, hash, i, j) ==
  IF i < j
  THEN LET h == (i + j) \div 2
       IN  IF ~(ks[h + 1] >= hash) THEN Search(ks, hash, h + 1, j)
           ELSE Search(ks, hash, i, h)
  ELSE i

\* Get that does not cycle back to the first replica: it takes the last one
GetNoWrap(mp, k, h) ==
  IF IsEmpty(mp) THEN EmptyStr
  ELSE LET hash == HashOf(h, k)
           idx == Search(mp.keys, hash, 0, Len(mp.keys))
           idx2 == IF idx = Len(mp.keys) THEN Len(mp.keys) - 1 ELSE idx
       IN  mp.hashMap[mp.keys[idx2 + 1]]

\* Map.Get(key)
Get(mp, k, h) ==
  IF IsEmpty(mp) THEN EmptyStr
  ELSE LET hash == HashOf(h, k)
           idx == Search(mp.keys, hash, 0, Len(mp.keys))
           idx2 == IF idx = Len(mp.keys) THEN 0 ELSE idx
       IN  mp.hashMap[mp.keys[idx2 + 1]]

\* the strings Add(ps...) hashes on a Map with the given replicas
ReplicaStrs(replicas, ps) ==
  {ReplicaStr(i, ps[n]) : i \in 0..(replicas - 1), n \in 1..Len(ps)}

\* a table that agrees with h and also gives the hashes f of new strings
ExtendTab(h, f) == [s \in DOMAIN h \cup DOMAIN f |-> IF s \in DOMAIN h THEN h[s] ELSE f[s]]

\* the sequences of at most n peers
PeerLists(n) == UNION {[1..l -> Peers] : l \in 0..n}

RingIdle ==
  /\ ring = New(0)
  /\ added = <<>>
  /\ lookup = <<>>

\* m := consistenthash.New(replicas, fn)
RingNew ==
  /\ \E r \in MinReplicas..MaxReplicas : ring = New(r)
  /\ added = <<>>
  /\ lookup = <<>>

\* m.Add(ps...)
RingAdd(ps) ==
  /\ Len(added) + Len(ps) <= MaxAdded
  /\ Len(ring.keys) + ring.replicas * Len(ps) <= MaxRing
  /\ \E f \in [ReplicaStrs(ring.replicas, ps) \ DOMAIN hashTab -> HashVals] :
       /\ hashTab' = ExtendTab(hashTab, f)
       /\ ring' = Add(ring, ps, hashTab')
  /\ added' = added \o ps
  /\ lookup' = <<>>
  /\ UNCHANGED notRing

\* m.Get(k)
RingGet(k) ==
  /\ lookup' = <<k, Get(ring, k, hashTab)>>
  /\ UNCHANGED <<ring, hashTab, added>>
  /\ UNCHANGED notRing

----------------------------------------------------------------------------
(***************************************************************************)
(* HTTPPool (http.go): Set and PickPeer, called from several goroutines    *)
(***************************************************************************)

PProcs == 1..PoolProcs

\* HTTPPool.self: this peer's base URL
SelfURL == <<"A">>
\* opts.BasePath after NewHTTPPoolOpts ("/_groupcache/")
BasePath == <<"/">>
\* a nil *httpGetter
NilGetter == [baseURL |-> EmptyStr, id |-> 0]

\* &httpGetter{transport: p.Transport, baseURL: peer + p.opts.BasePath}; id
\* tells the getters allocated by different Set calls apart
NewGetter(peer, id) == [baseURL |-> peer \o BasePath, id |-> id]

\* p.httpGetters[peer]: nil when the map has no such key
GetterOf(gs, peer) == IF peer \in DOMAIN gs THEN gs[peer] ELSE NilGetter

\* p.httpGetters = make(...); for _, peer := range peers { p.httpGetters[peer] = ... }
MakeGetters(ps, id) == [peer \in {ps[n] : n \in 1..Len(ps)} |-> NewGetter(peer, id)]

PoolIdle ==
  /\ poolMu = NoProc
  /\ poolReplicas = 1
  /\ poolPeers = New(1)
  /\ httpGetters = <<>>
  /\ ppc = [p \in PProcs |-> "idle"]
  /\ parg = [p \in PProcs |-> <<>>]
  /\ ppeer = [p \in PProcs |-> EmptyStr]
  /\ pret = [p \in PProcs |-> <<NilGetter, FALSE>>]
  /\ setId = [p \in PProcs |-> 0]
  /\ nSets = 0
  /\ nOps = 0
  /\ lastSet = [args |-> <<>>, id |-> 0]
  /\ snap = [p \in PProcs |-> [args |-> <<>>, id |-> 0]]

\* NewHTTPPoolOpts(self, o) with o.Replicas # 0
PoolNew ==
  /\ poolMu = NoProc
  /\ \E r \in 1..MaxReplicas : poolReplicas = r /\ poolPeers = New(r)
  /\ httpGetters = <<>>
  /\ ppc = [p \in PProcs |-> "idle"]
  /\ parg = [p \in PProcs |-> <<>>]
  /\ ppeer = [p \in PProcs |-> EmptyStr]
  /\ pret = [p \in PProcs |-> <<NilGetter, FALSE>>]
  /\ setId = [p \in PProcs |-> 0]
  /\ nSets = 0
  /\ nOps = 0
  /\ lastSet = [args |-> <<>>, id |-> 0]
  /\ snap = [p \in PProcs |-> [args |-> <<>>, id |-> 0]]

\* the byte of a character
ByteOf(ch) ==
  CASE ch = "0" -> 48 [] ch = "1" -> 49 [] ch = "2" -> 50 [] ch = "3" -> 51
    [] ch = "4" -> 52 [] ch = "5" -> 53 [] ch = "6" -> 54 [] ch = "7" -> 55
    [] ch = "8" -> 56 [] ch = "9" -> 57 [] ch = "A" -> 65 [] ch = "B" -> 66
    [] ch = "C" -> 67 [] ch = "k" -> 107

RECURSIVE SumBytes(_)
SumBytes(str) == IF str = <<>> THEN 0 ELSE ByteOf(Head(str)) + SumBytes(Tail(str))

\* opts.HashFn of the pool: the sum of the bytes, reduced to the range of the
\* hash, on the strings Add hashes; on the lookup keys it is KeyHashTab
PoolHashTab ==
  [s \in LookupKeys \cup ReplicaStrs(MaxReplicas, PeerOrder) |->
     IF s \in LookupKeys THEN KeyHashTab[s] ELSE SumBytes(s) % HashSize]

\* the peer lists passed to Set: at most n peers, in the fixed order
Ascending(ps) ==
  \A a, b \in 1..Len(ps) :
    a < b => \E x, y \in 1..Len(PeerOrder) : x < y /\ PeerOrder[x] = ps[a] /\ PeerOrder[y] = ps[b]
SetArgs(n) == {ps \in PeerLists(n) : Ascending(ps)}

\* Set that does not take p.mu
SetLockSkipped(p, ps) ==
  /\ ppc[p] = "idle"
  /\ nOps < MaxPoolOps
  /\ ppc' = [ppc EXCEPT ![p] = "setnew"]
  /\ parg' = [parg EXCEPT ![p] = ps]
  /\ setId' = [setId EXCEPT ![p] = nSets + 1]
  /\ nSets' = nSets + 1
  /\ nOps' = nOps + 1
  /\ UNCHANGED <<poolMu, poolReplicas, poolPeers, httpGetters, ppeer, pret, lastSet, snap>>
  /\ UNCHANGED <<hashTab, notPool>>

\* a goroutine calls p.Set(ps...) and gets past p.mu.Lock(); defer p.mu.Unlock()
SetLock(p, ps) ==
  /\ ppc[p] = "idle"
  /\ nOps < MaxPoolOps
  /\ poolMu = NoProc
  /\ poolMu' = p
  /\ ppc' = [ppc EXCEPT ![p] = "setnew"]
  /\ parg' = [parg EXCEPT ![p] = ps]
  /\ setId' = [setId EXCEPT ![p] = nSets + 1]
  /\ nSets' = nSets + 1
  /\ nOps' = nOps + 1
  /\ UNCHANGED <<poolReplicas, poolPeers, httpGetters, ppeer, pret, lastSet, snap>>
  /\ UNCHANGED <<hashTab, notPool>>

\* p.peers = consistenthash.New(p.opts.Replicas, p.opts.HashFn)
SetNew(p) ==
  /\ ppc[p] = "setnew"
  /\ poolPeers' = New(poolReplicas)
  /\ ppc' = [ppc EXCEPT ![p] = "setadd"]
  /\ UNCHANGED <<poolMu, poolReplicas, httpGetters, parg, ppeer, pret,
                 setId, nSets, nOps, lastSet, snap>>
  /\ UNCHANGED <<hashTab, notPool>>

\* p.peers.Add(peers...)
SetAdd(p) ==
  /\ ppc[p] = "setadd"
  /\ \E f \in [ReplicaStrs(poolPeers.replicas, parg[p]) \ DOMAIN hashTab -> HashVals] :
       /\ hashTab' = ExtendTab(hashTab, f)
       /\ poolPeers' = Add(poolPeers, parg[p], hashTab')
  /\ ppc' = [ppc EXCEPT ![p] = "setgetters"]
  /\ UNCHANGED <<poolMu, poolReplicas, httpGetters, parg, ppeer, pret,
                 setId, nSets, nOps, lastSet, snap>>
  /\ UNCHANGED notPool

\* Set that registers no getter for the first peer
SetGettersButFirst(p) ==
  /\ ppc[p] = "setgetters"
  /\ httpGetters' = MakeGetters(IF parg[p] = <<>> THEN <<>> ELSE Tail(parg[p]), setId[p])
  /\ ppc' = [ppc EXCEPT ![p] = "setunlock"]
  /\ UNCHANGED <<poolMu, poolReplicas, poolPeers, parg, ppeer, pret,
                 setId, nSets, nOps, lastSet, snap>>
  /\ UNCHANGED <<hashTab, notPool>>

\* p.httpGetters = make(map[string]*httpGetter, len(peers)) and the loop that fills it
SetGetters(p) ==
  /\ ppc[p] = "setgetters"
  /\ httpGetters' = MakeGetters(parg[p], setId[p])
  /\ ppc' = [ppc EXCEPT ![p] = "setunlock"]
  /\ UNCHANGED <<poolMu, poolReplicas, poolPeers, parg, ppeer, pret,
                 setId, nSets, nOps, lastSet, snap>>
  /\ UNCHANGED <<hashTab, notPool>>

\* the deferred p.mu.Unlock(); Set returns
SetUnlock(p) ==
  /\ ppc[p] = "setunlock"
  /\ poolMu' = NoProc
  /\ lastSet' = [args |-> parg[p], id |-> setId[p]]
  /\ ppc' = [ppc EXCEPT ![p] = "idle"]
  /\ parg' = [parg EXCEPT ![p] = <<>>]
  /\ setId' = [setId EXCEPT ![p] = 0]
  /\ UNCHANGED <<poolReplicas, poolPeers, httpGetters, ppeer, pret, nSets, nOps, snap>>
  /\ UNCHANGED <<hashTab, notPool>>

\* a goroutine calls p.PickPeer(k) and gets past p.mu.Lock(); defer p.mu.Unlock()
PickLock(p, k) ==
  /\ ppc[p] = "idle"
  /\ nOps < MaxPoolOps
  /\ poolMu = NoProc
  /\ poolMu' = p
  /\ snap' = [snap EXCEPT ![p] = lastSet]
  /\ ppc' = [ppc EXCEPT ![p] = "pickring"]
  /\ parg' = [parg EXCEPT ![p] = k]
  /\ nOps' = nOps + 1
  /\ UNCHANGED <<poolReplicas, poolPeers, httpGetters, ppeer, pret,
                 setId, nSets, lastSet>>
  /\ UNCHANGED <<hashTab, notPool>>

\* if p.peers.IsEmpty() { return nil, false }
\* if peer := p.peers.Get(key); peer != p.self { ... }; return nil, false
PickRing(p) ==
  /\ ppc[p] = "pickring"
  /\ IF IsEmpty(poolPeers)
     THEN /\ pret' = [pret EXCEPT ![p] = <<NilGetter, FALSE>>]
          /\ ppc' = [ppc EXCEPT ![p] = "pickunlock"]
          /\ UNCHANGED ppeer
     ELSE LET peer == Get(poolPeers, parg[p], hashTab)
          IN  /\ ppeer' = [ppeer EXCEPT ![p] = peer]
              /\ IF peer # SelfURL
                 THEN /\ ppc' = [ppc EXCEPT ![p] = "pickgetter"]
                      /\ UNCHANGED pret
                 ELSE /\ pret' = [pret EXCEPT ![p] = <<NilGetter, FALSE>>]
                      /\ ppc' = [ppc EXCEPT ![p] = "pickunlock"]
  /\ UNCHANGED <<poolMu, poolReplicas, poolPeers, httpGetters, parg,
                 setId, nSets, nOps, lastSet, snap>>
  /\ UNCHANGED <<hashTab, notPool>>

\* return p.httpGetters[peer], true
PickGetter(p) ==
  /\ ppc[p] = "pickgetter"
  /\ pret' = [pret EXCEPT ![p] = <<GetterOf(httpGetters, ppeer[p]), TRUE>>]
  /\ ppc' = [ppc EXCEPT ![p] = "pickunlock"]
  /\ UNCHANGED <<poolMu, poolReplicas, poolPeers, httpGetters, parg, ppeer,
                 setId, nSets, nOps, lastSet, snap>>
  /\ UNCHANGED <<hashTab, notPool>>

\* the deferred p.mu.Unlock(); PickPeer returns
PickUnlock(p) ==
  /\ ppc[p] = "pickunlock"
  /\ poolMu' = NoProc
  /\ ppc' = [ppc EXCEPT ![p] = "pickdone"]
  /\ UNCHANGED <<poolReplicas, poolPeers, httpGetters, parg, ppeer, pret,
                 setId, nSets, nOps, lastSet, snap>>
  /\ UNCHANGED <<hashTab, notPool>>

\* the caller takes the result and the locals of the call go out of scope
PickFinish(p) ==
  /\ ppc[p] = "pickdone"
  /\ ppc' = [ppc EXCEPT ![p] = "idle"]
  /\ parg' = [parg EXCEPT ![p] = <<>>]
  /\ ppeer' = [ppeer EXCEPT ![p] = EmptyStr]
  /\ pret' = [pret EXCEPT ![p] = <<NilGetter, FALSE>>]
  /\ snap' = [snap EXCEPT ![p] = [args |-> <<>>, id |-> 0]]
  /\ UNCHANGED <<poolMu, poolReplicas, poolPeers, httpGetters, setId, nSets, nOps, lastSet>>
  /\ UNCHANGED <<hashTab, notPool>>

----------------------------------------------------------------------------
(***************************************************************************)
(* The values of peer-picker registration (peers.go)                       *)
(***************************************************************************)

RProcs == 1..RegProcs
Groups == {"g1", "g2"}

\* PeerPicker values: the nil interface, NoPeers{} and an HTTPPool
NilPicker == "nil"
NoPeers == "NoPeers"
PoolPicker == "pool"

\* the arguments of RegisterPeerPicker: func() PeerPicker
NilFn == "nilfn"
UniformFns == {NilFn, "always", "never"}
\* the arguments of RegisterPerGroupPeerPicker: func(groupName string) PeerPicker
PerGroupFns == {NilFn, "always", "never", "onlyg1"}

\* the values of portPicker: nil, the closure RegisterPeerPicker makes around
\* fn, or the function passed to RegisterPerGroupPeerPicker
NilSlot == [kind |-> "nil", fn |-> NilFn]
Uniform(fn) == [kind |-> "uniform", fn |-> fn]
PerGroup(fn) == IF fn = NilFn THEN NilSlot ELSE [kind |-> "pergroup", fn |-> fn]

\* nothing registered, no call made
RegIdle ==
  /\ portPicker = NilSlot
  /\ httpPoolMade = FALSE
  /\ regLog = <<>>
  /\ lastPeers = [called |-> FALSE, slot |-> NilSlot, group |-> "g1", pk |-> NoPeers,
                  pick |-> <<NilGetter, FALSE>>]
  /\ rpc = [p \in RProcs |-> "idle"]
  /\ rop = [p \in RProcs |-> "uniform"]
  /\ rarg = [p \in RProcs |-> NilFn]

----------------------------------------------------------------------------
(***************************************************************************)
(* The values of sinks (sinks.go).  A byte is 0 or 1.  A []byte is a slice *)
(* [buf, len] of the byte array heap[buf], starting at its first byte; its *)
(* capacity is the length of the array; buf = 0 is the nil slice.  Two     *)
(* slices share storage when they name the same array.  A string is an     *)
(* immutable sequence of bytes.  A ByteView is [b, s] and reads b when b   *)
(* is not nil, s otherwise.                                                *)
(***************************************************************************)

ByteVals == {0, 1}
Fill(n, x) == [i \in 1..n |-> x]
\* the strings and slice contents the callers pass
Contents == {Fill(n, x) : n \in 0..MaxLen, x \in ByteVals}

NilSlice == [buf |-> 0, len |-> 0]
ZeroView == [b |-> NilSlice, s |-> <<>>]

SinkKinds == {"string", "byteview", "proto", "allocbytes", "truncbytes"}

\* the zero value of a sink struct
ZeroSink(kind) ==
  [kind |-> kind, sp |-> <<>>, dstView |-> ZeroView, dstNil |-> FALSE, dst |-> NilSlice,
   msg |-> <<>>, v |-> ZeroView]

NoCall ==
  [op |-> "none", ok |-> FALSE, content |-> <<>>, via |-> "none", viewB |-> FALSE,
   dstLen |-> 0, dstCap |-> 0, prevOk |-> FALSE, prevContent |-> <<>>,
   err |-> "nil", viewKept |-> TRUE]

\* no sink in use
SinkIdle ==
  /\ heap = <<>>
  /\ sink = ZeroSink("string")
  /\ lastCall = NoCall
  /\ argB = NilSlice
  /\ nSinkOps = 0
  /\ argMutated = FALSE
  /\ dstWritten = FALSE

----------------------------------------------------------------------------
(***************************************************************************)
(* singleflight.Group                                                      *)
(***************************************************************************)

\* type call struct { wg sync.WaitGroup; val interface{}; err error }, zeroed
NewCall == [wg |-> 0, val |-> NilVal, err |-> NilErr]

EmptyTab == [k \in {} |-> 0]

\* a Group{} on which no Do has been called
SFIdle ==
  /\ mu = NoProc
  /\ m = [isNil |-> TRUE, tab |-> EmptyTab]
  /\ calls = <<>>
  /\ pc = [p \in Procs |-> "idle"]
  /\ key = [p \in Procs |-> "k1"]
  /\ c = [p \in Procs |-> 0]
  /\ ret = [p \in Procs |-> <<NilVal, NilErr>>]
  /\ role = [p \in Procs |-> "none"]
  /\ fnOut = <<>>
  /\ fnRuns = 0
  /\ nCalls = 0

\* a goroutine calls g.Do(k, fn)
DoCall(p, k) ==
  /\ pc[p] = "idle"
  /\ nCalls < MaxCalls
  /\ pc' = [pc EXCEPT ![p] = "lock"]
  /\ key' = [key EXCEPT ![p] = k]
  /\ nCalls' = nCalls + 1
  /\ UNCHANGED <<mu, m, calls, c, ret, role, fnOut, fnRuns>>
  /\ UNCHANGED notSF

\* g.mu.Lock(); if g.m == nil { g.m = make(map[string]*call) }
DoLock(p) ==
  /\ pc[p] = "lock"
  /\ mu = NoProc
  /\ mu' = p
  /\ m' = IF m.isNil THEN [isNil |-> FALSE, tab |-> EmptyTab] ELSE m
  /\ pc' = [pc EXCEPT ![p] = "locked"]
  /\ UNCHANGED <<calls, key, c, ret, role, fnOut, fnRuns, nCalls>>
  /\ UNCHANGED notSF

\* DoFollow without g.mu.Unlock(): the follower waits with the mutex held
DoFollowKeepsLock(p) ==
  /\ pc[p] = "locked"
  /\ key[p] \in DOMAIN m.tab
  /\ c' = [c EXCEPT ![p] = m.tab[key[p]]]
  /\ role' = [role EXCEPT ![p] = "follower"]
  /\ pc' = [pc EXCEPT ![p] = "wait"]
  /\ UNCHANGED <<mu, m, calls, key, ret, fnOut, fnRuns, nCalls>>
  /\ UNCHANGED notSF

\* if c, ok := g.m[key]; ok { g.mu.Unlock(); ...
DoFollow(p) ==
  /\ pc[p] = "locked"
  /\ key[p] \in DOMAIN m.tab
  /\ c' = [c EXCEPT ![p] = m.tab[key[p]]]
  /\ mu' = NoProc
  /\ role' = [role EXCEPT ![p] = "follower"]
  /\ pc' = [pc EXCEPT ![p] = "wait"]
  /\ UNCHANGED <<m, calls, key, ret, fnOut, fnRuns, nCalls>>
  /\ UNCHANGED notSF

\* DoWait without the barrier: the follower reads c.val, c.err at once
DoWaitNoBarrier(p) ==
  /\ pc[p] = "wait"
  /\ ret' = [ret EXCEPT ![p] = <<calls[c[p]].val, calls[c[p]].err>>]
  /\ pc' = [pc EXCEPT ![p] = "done"]
  /\ UNCHANGED <<mu, m, calls, key, c, role, fnOut, fnRuns, nCalls>>
  /\ UNCHANGED notSF

\* ... c.wg.Wait(); return c.val, c.err }
DoWait(p) ==
  /\ pc[p] = "wait"
  /\ calls[c[p]].wg = 0
  /\ ret' = [ret EXCEPT ![p] = <<calls[c[p]].val, calls[c[p]].err>>]
  /\ pc' = [pc EXCEPT ![p] = "done"]
  /\ UNCHANGED <<mu, m, calls, key, c, role, fnOut, fnRuns, nCalls>>
  /\ UNCHANGED notSF

\* DoRegister without the lookup of g.m[key]: every caller becomes a pioneer
DoRegisterNoLookup(p) ==
  /\ pc[p] = "locked"
  /\ calls' = Append(calls, [NewCall EXCEPT !.wg = 1])
  /\ fnOut' = Append(fnOut, <<>>)
  /\ c' = [c EXCEPT ![p] = Len(calls) + 1]
  /\ m' = [m EXCEPT !.tab = [k \in DOMAIN m.tab \cup {key[p]} |->
                               IF k = key[p] THEN Len(calls) + 1 ELSE m.tab[k]]]
  /\ mu' = NoProc
  /\ role' = [role EXCEPT ![p] = "pioneer"]
  /\ fnRuns' = fnRuns + 1
  /\ pc' = [pc EXCEPT ![p] = "fn"]
  /\ UNCHANGED <<key, ret, nCalls>>
  /\ UNCHANGED notSF

\* DoRegister without g.mu.Unlock(): fn runs with the mutex held
DoRegisterKeepsLock(p) ==
  /\ pc[p] = "locked"
  /\ key[p] \notin DOMAIN m.tab
  /\ calls' = Append(calls, [NewCall EXCEPT !.wg = 1])
  /\ fnOut' = Append(fnOut, <<>>)
  /\ c' = [c EXCEPT ![p] = Len(calls) + 1]
  /\ m' = [m EXCEPT !.tab = [k \in DOMAIN m.tab \cup {key[p]} |->
                               IF k = key[p] THEN Len(calls) + 1 ELSE m.tab[k]]]
  /\ role' = [role EXCEPT ![p] = "pioneer"]
  /\ fnRuns' = fnRuns + 1
  /\ pc' = [pc EXCEPT ![p] = "fn"]
  /\ UNCHANGED <<mu, key, ret, nCalls>>
  /\ UNCHANGED notSF

\* c := new(call); c.wg.Add(1); g.m[key] = c; g.mu.Unlock(); then fn starts
DoRegister(p) ==
  /\ pc[p] = "locked"
  /\ key[p] \notin DOMAIN m.tab
  /\ calls' = Append(calls, [NewCall EXCEPT !.wg = 1])
  /\ fnOut' = Append(fnOut, <<>>)
  /\ c' = [c EXCEPT ![p] = Len(calls) + 1]
  /\ m' = [m EXCEPT !.tab = [k \in DOMAIN m.tab \cup {key[p]} |->
                               IF k = key[p] THEN Len(calls) + 1 ELSE m.tab[k]]]
  /\ mu' = NoProc
  /\ role' = [role EXCEPT ![p] = "pioneer"]
  /\ fnRuns' = fnRuns + 1
  /\ pc' = [pc EXCEPT ![p] = "fn"]
  /\ UNCHANGED <<key, ret, nCalls>>
  /\ UNCHANGED notSF

\* c.val, c.err = fn(): fn returns; its value is unique to this execution
FnReturn(p, e) ==
  /\ pc[p] = "fn"
  /\ calls' = [calls EXCEPT ![c[p]].val = c[p], ![c[p]].err = e]
  /\ fnOut' = [fnOut EXCEPT ![c[p]] = <<c[p], e>>]
  /\ pc' = [pc EXCEPT ![p] = "fndone"]
  /\ UNCHANGED <<mu, m, key, c, ret, role, fnRuns, nCalls>>
  /\ UNCHANGED notSF

\* DoDone that forgets c.wg.Done()
DoDoneForgotten(p) ==
  /\ pc[p] = "fndone"
  /\ pc' = [pc EXCEPT ![p] = "relock"]
  /\ UNCHANGED <<mu, m, calls, key, c, ret, role, fnOut, fnRuns, nCalls>>
  /\ UNCHANGED notSF

\* c.wg.Done()
DoDone(p) ==
  /\ pc[p] = "fndone"
  /\ calls' = [calls EXCEPT ![c[p]].wg = calls[c[p]].wg - 1]
  /\ pc' = [pc EXCEPT ![p] = "relock"]
  /\ UNCHANGED <<mu, m, key, c, ret, role, fnOut, fnRuns, nCalls>>
  /\ UNCHANGED notSF

\* g.mu.Lock() (the second one)
DoRelock(p) ==
  /\ pc[p] = "relock"
  /\ mu = NoProc
  /\ mu' = p
  /\ pc' = [pc EXCEPT ![p] = "delete"]
  /\ UNCHANGED <<m, calls, key, c, ret, role, fnOut, fnRuns, nCalls>>
  /\ UNCHANGED notSF

\* DoDelete that keeps the finished call in the map, as a memoizing Do would
DoDeleteKeepsEntry(p) ==
  /\ pc[p] = "delete"
  /\ mu' = NoProc
  /\ pc' = [pc EXCEPT ![p] = "return"]
  /\ UNCHANGED <<m, calls, key, c, ret, role, fnOut, fnRuns, nCalls>>
  /\ UNCHANGED notSF

\* delete(g.m, key); g.mu.Unlock()
DoDelete(p) ==
  /\ pc[p] = "delete"
  /\ m' = [m EXCEPT !.tab = [k \in DOMAIN m.tab \ {key[p]} |-> m.tab[k]]]
  /\ mu' = NoProc
  /\ pc' = [pc EXCEPT ![p] = "return"]
  /\ UNCHANGED <<calls, key, c, ret, role, fnOut, fnRuns, nCalls>>
  /\ UNCHANGED notSF

\* return c.val, c.err (the pioneer)
DoReturn(p) ==
  /\ pc[p] = "return"
  /\ ret' = [ret EXCEPT ![p] = <<calls[c[p]].val, calls[c[p]].err>>]
  /\ pc' = [pc EXCEPT ![p] = "done"]
  /\ UNCHANGED <<mu, m, calls, key, c, role, fnOut, fnRuns, nCalls>>
  /\ UNCHANGED notSF

\* the caller takes the result and the locals of the call go out of scope;
\* the goroutine may call Do again
DoFinish(p) ==
  /\ pc[p] = "done"
  /\ pc' = [pc EXCEPT ![p] = "idle"]
  /\ key' = [key EXCEPT ![p] = "k1"]
  /\ c' = [c EXCEPT ![p] = 0]
  /\ ret' = [ret EXCEPT ![p] = <<NilVal, NilErr>>]
  /\ role' = [role EXCEPT ![p] = "none"]
  /\ UNCHANGED <<mu, m, calls, fnOut, fnRuns, nCalls>>
  /\ UNCHANGED notSF

\* a Group whose caches are empty and on which no Get is running
GetIdle ==
  /\ cacheBytes = 0
  /\ mainCache = <<>>
  /\ hotCache = <<>>
  /\ ranLoader = {}
  /\ lost = {}

InitSF == SFIdle /\ hashTab = KeyHashTab /\ RingIdle /\ PoolIdle /\ GetIdle /\ RegIdle /\ SinkIdle

NextSF ==
  \/ \E p \in Procs, k \in Keys : DoCall(p, k)
  \/ \E p \in Procs : DoLock(p)
  \/ \E p \in Procs : DoFollow(p)
  \/ \E p \in Procs : DoWait(p)
  \/ \E p \in Procs : DoRegister(p)
  \/ \E p \in Procs, e \in Errs : FnReturn(p, e)
  \/ \E p \in Procs : DoDone(p)
  \/ \E p \in Procs : DoRelock(p)
  \/ \E p \in Procs : DoDelete(p)
  \/ \E p \in Procs : DoReturn(p)
  \/ \E p \in Procs : DoFinish(p)

SpecSF == InitSF /\ [][NextSF]_vars

\* The same Group with fewer goroutines and calls, for the liveness check.
DoCallLive(p, k) ==
  /\ p <= LiveProcs
  /\ nCalls < LiveCalls
  /\ DoCall(p, k)

\* a step of goroutine p that acquires no mutex
DoStep(p) ==
  \/ DoFollow(p) \/ DoWait(p) \/ DoRegister(p) \/ (\E e \in Errs : FnReturn(p, e))
  \/ DoDone(p) \/ DoDelete(p) \/ DoReturn(p)

NextSFLive ==
  \/ \E p \in Procs, k \in Keys : DoCallLive(p, k)
  \/ \E p \in Procs : DoLock(p)
  \/ \E p \in Procs : DoRelock(p)
  \/ \E p \in Procs : DoStep(p)
  \/ \E p \in Procs : DoFinish(p)

\* Fair scheduling of the goroutines: every goroutine that can take a step
\* eventually does, every fn returns, and a goroutine blocked in Lock gets the
\* mutex if it is free again and again (sync.Mutex hands the mutex to a
\* starving waiter).
FairSF ==
  \A p \in Procs :
    /\ SF_vars(DoLock(p) \/ DoRelock(p))
    /\ WF_vars(DoStep(p))

SpecSFFair == InitSF /\ [][NextSFLive]_vars /\ FairSF

\* a step of goroutine p that acquires no mutex and is not the return of fn
DoStepNoFn(p) ==
  \/ DoFollow(p) \/ DoWait(p) \/ DoRegister(p)
  \/ DoDone(p) \/ DoDelete(p) \/ DoReturn(p)

\* Fair scheduling as in FairSF, but only the fn of key "k2" is sure to
\* return: the fn of key "k1" may run for ever.
FairSFSlow ==
  \A p \in Procs :
    /\ SF_vars(DoLock(p) \/ DoRelock(p))
    /\ WF_vars(DoStepNoFn(p))
    /\ WF_vars(key[p] = "k2" /\ \E e \in Errs : FnReturn(p, e))

SpecSFSlow == InitSF /\ [][NextSFLive]_vars /\ FairSFSlow

\* the key whose fn may panic
PanicKey == "k1"

\* FnPanic with the barrier lowered on the way out, as a deferred c.wg.Done()
\* would do
FnPanicLowersBarrier(p) ==
  /\ pc[p] = "fn"
  /\ key[p] = PanicKey
  /\ calls' = [calls EXCEPT ![c[p]].wg = @ - 1]
  /\ pc' = [pc EXCEPT ![p] = "panicked"]
  /\ UNCHANGED <<mu, m, key, c, ret, role, fnOut, fnRuns, nCalls>>
  /\ UNCHANGED notSF

\* fn panics: Do has no defer, so the panic leaves Do at line 68 with c.wg
\* not done and g.m[key] in place; the goroutine never gets back into this
\* call
FnPanic(p) ==
  /\ pc[p] = "fn"
  /\ key[p] = PanicKey
  /\ pc' = [pc EXCEPT ![p] = "panicked"]
  /\ UNCHANGED <<mu, m, calls, key, c, ret, role, fnOut, fnRuns, nCalls>>
  /\ UNCHANGED notSF

NextSFPanic ==
  \/ NextSFLive
  \/ \E p \in Procs : FnPanic(p)

SpecSFPanic == InitSF /\ [][NextSFPanic]_vars /\ FairSF

----------------------------------------------------------------------------
(***************************************************************************)
(* The Group engine: Get and load, which runs its load function under      *)
(* loadGroup.Do(key, ...).  The steps of Do are the ones above; the load   *)
(* function takes the place of fn.  A cache holds <<key, value>> entries,  *)
(* newest first, and cacheBytes counts entries.  Statistics are left out.  *)
(***************************************************************************)

CacheKeys(cache) == {cache[n][1] : n \in 1..Len(cache)}
CacheIndex(cache, k) == (CHOOSE n \in 1..Len(cache) : cache[n][1] = k)
CacheDrop(cache, k) == SelectSeq(cache, LAMBDA e : e[1] # k)

\* LRU Get: a hit moves the entry to the front
CacheTouch(cache, k) ==
  IF k \in CacheKeys(cache) THEN <<cache[CacheIndex(cache, k)]>> \o CacheDrop(cache, k)
  ELSE cache

\* LRU Add: push to the front, overwriting an entry of the same key
CacheAdd(cache, k, v) == <<<<k, v>>>> \o CacheDrop(cache, k)

\* the eviction loop of populateCache, on <<mainCache, hotCache>>
RECURSIVE Evict(_, _, _)
Evict(main, hot, budget) ==
  IF Len(main) + Len(hot) <= budget THEN <<main, hot>>
  ELSE IF Len(main) > 8 * Len(hot)
       THEN Evict(SubSeq(main, 1, Len(main) - 1), hot, budget)
       ELSE Evict(main, SubSeq(hot, 1, Len(hot) - 1), budget)

\* the values held by the two caches
CachedValues(main, hot) ==
  {main[n][2] : n \in 1..Len(main)} \cup {hot[n][2] : n \in 1..Len(hot)}

\* NewGroup(name, cacheBytes, loader)
GroupNew ==
  /\ cacheBytes \in 0..MaxCacheBytes
  /\ mainCache = <<>>
  /\ hotCache = <<>>
  /\ ranLoader = {}
  /\ lost = {}

\* lookupCache(k): probe mainCache, then hotCache; <<hit, value, mainCache',
\* hotCache'>>
LookupCache(k) ==
  IF k \in CacheKeys(mainCache)
  THEN <<TRUE, mainCache[CacheIndex(mainCache, k)][2], CacheTouch(mainCache, k), hotCache>>
  ELSE IF k \in CacheKeys(hotCache)
  THEN <<TRUE, hotCache[CacheIndex(hotCache, k)][2], mainCache, CacheTouch(hotCache, k)>>
  ELSE <<FALSE, NilVal, mainCache, hotCache>>

\* a goroutine calls g.Get(ctx, k, sink): a hit in the caches returns the
\* cached value, a miss goes on to load, which calls loadGroup.Do(key, ...)
GetCall(p, k) ==
  /\ p <= GetProcs
  /\ nCalls < GetCalls
  /\ pc[p] = "idle"
  /\ key' = [key EXCEPT ![p] = k]
  /\ nCalls' = nCalls + 1
  /\ LET look == LookupCache(k)
     IN  /\ mainCache' = look[3]
         /\ hotCache' = look[4]
         /\ IF look[1]
            THEN /\ ret' = [ret EXCEPT ![p] = <<look[2], NilErr>>]
                 /\ pc' = [pc EXCEPT ![p] = "done"]
            ELSE /\ pc' = [pc EXCEPT ![p] = "lock"]
                 /\ UNCHANGED ret
  /\ UNCHANGED <<mu, m, calls, c, role, fnOut, fnRuns>>
  /\ UNCHANGED <<cacheBytes, ranLoader, lost, notGet>>

\* the load function returns (v, e): c.val, c.err = fn()
LoadReturns(p, v, e) ==
  /\ calls' = [calls EXCEPT ![c[p]].val = v, ![c[p]].err = e]
  /\ fnOut' = [fnOut EXCEPT ![c[p]] = <<v, e>>]
  /\ pc' = [pc EXCEPT ![p] = "fndone"]

\* the load function, first step: look into both caches again and return on a
\* hit; on a miss ask peers.PickPeer(key), whose answer is a remote peer or
\* this process
LoadCheck(p, remote) ==
  /\ pc[p] = "fn"
  /\ LET look == LookupCache(key[p])
     IN  /\ mainCache' = look[3]
         /\ hotCache' = look[4]
         /\ IF look[1]
            THEN LoadReturns(p, look[2], NilErr)
            ELSE /\ pc' = [pc EXCEPT ![p] = IF remote THEN "peer" ELSE "loader"]
                 /\ UNCHANGED <<calls, fnOut>>
  /\ UNCHANGED <<mu, m, key, c, ret, role, fnRuns, nCalls>>
  /\ UNCHANGED <<cacheBytes, ranLoader, lost, notGet>>

\* populateCache(k, v, cache), a no-op when cacheBytes <= 0: <<mainCache',
\* hotCache'>>
PopulateCache(k, v, toMain) ==
  IF cacheBytes <= 0 THEN <<mainCache, hotCache>>
  ELSE IF toMain THEN Evict(CacheAdd(mainCache, k, v), hotCache, cacheBytes)
  ELSE Evict(mainCache, CacheAdd(hotCache, k, v), cacheBytes)

\* getFromPeer succeeds; the value goes into hotCache now and then
LoadPeerOk(p, sample) ==
  /\ pc[p] = "peer"
  /\ LET pop == IF sample THEN PopulateCache(key[p], c[p], FALSE)
                ELSE <<mainCache, hotCache>>
     IN  /\ mainCache' = pop[1]
         /\ hotCache' = pop[2]
         /\ lost' = lost \cup (CachedValues(mainCache, hotCache) \ CachedValues(pop[1], pop[2]))
  /\ LoadReturns(p, c[p], NilErr)
  /\ UNCHANGED <<mu, m, key, c, ret, role, fnRuns, nCalls>>
  /\ UNCHANGED <<cacheBytes, ranLoader, notGet>>

\* getFromPeer fails: fall through to the local load
LoadPeerErr(p) ==
  /\ pc[p] = "peer"
  /\ pc' = [pc EXCEPT ![p] = "loader"]
  /\ UNCHANGED <<mu, m, calls, key, c, ret, role, fnOut, fnRuns, nCalls>>
  /\ UNCHANGED <<getVars, notGet>>

\* the backend loader is invoked
LoaderStart(p) ==
  /\ pc[p] = "loader"
  /\ ranLoader' = ranLoader \cup {c[p]}
  /\ pc' = [pc EXCEPT ![p] = "inloader"]
  /\ UNCHANGED <<mu, m, calls, key, c, ret, role, fnOut, fnRuns, nCalls>>
  /\ UNCHANGED <<cacheBytes, mainCache, hotCache, lost, notGet>>

\* the backend loader fails: the error is the result of the load
LoaderErr(p) ==
  /\ pc[p] = "inloader"
  /\ lost' = lost \cup {c[p]}
  /\ LoadReturns(p, NilVal, "err")
  /\ UNCHANGED <<mu, m, key, c, ret, role, fnRuns, nCalls>>
  /\ UNCHANGED <<cacheBytes, mainCache, hotCache, ranLoader, notGet>>

\* the backend loader succeeds: populateCache(key, value, &g.mainCache)
LoaderOk(p) ==
  /\ pc[p] = "inloader"
  /\ LET pop == PopulateCache(key[p], c[p], TRUE)
     IN  /\ mainCache' = pop[1]
         /\ hotCache' = pop[2]
         /\ lost' = lost \cup ((CachedValues(mainCache, hotCache) \cup {c[p]})
                                 \ CachedValues(pop[1], pop[2]))
  /\ LoadReturns(p, c[p], NilErr)
  /\ UNCHANGED <<mu, m, key, c, ret, role, fnRuns, nCalls>>
  /\ UNCHANGED <<cacheBytes, ranLoader, notGet>>

InitGet == SFIdle /\ hashTab = KeyHashTab /\ RingIdle /\ PoolIdle /\ GroupNew /\ RegIdle /\ SinkIdle

NextGet ==
  \/ \E p \in Procs, k \in Keys : GetCall(p, k)
  \/ \E p \in Procs : DoLock(p)
  \/ \E p \in Procs : DoFollow(p)
  \/ \E p \in Procs : DoWait(p)
  \/ \E p \in Procs : DoRegister(p)
  \/ \E p \in Procs, remote \in BOOLEAN : LoadCheck(p, remote)
  \/ \E p \in Procs, sample \in BOOLEAN : LoadPeerOk(p, sample)
  \/ \E p \in Procs : LoadPeerErr(p)
  \/ \E p \in Procs : LoaderStart(p)
  \/ \E p \in Procs : LoaderErr(p)
  \/ \E p \in Procs : LoaderOk(p)
  \/ \E p \in Procs : DoDone(p)
  \/ \E p \in Procs : DoRelock(p)
  \/ \E p \in Procs : DoDelete(p)
  \/ \E p \in Procs : DoReturn(p)
  \/ \E p \in Procs : DoFinish(p)

SpecGet == InitGet /\ [][NextGet]_vars

----------------------------------------------------------------------------
(***************************************************************************)
(* Peer-picker registration (peers.go): the package variable portPicker,   *)
(* RegisterPeerPicker, RegisterPerGroupPeerPicker and getPeers, and the    *)
(* registration made by NewHTTPPoolOpts (http.go).  A function value is    *)
(* named by what it returns; NilFn is the nil function.                    *)
(***************************************************************************)

\* the result of calling a non-nil function value
CallFn(fn, groupName) ==
  CASE fn = "always" -> PoolPicker
    [] fn = "never" -> NilPicker
    [] fn = "onlyg1" -> IF groupName = "g1" THEN PoolPicker ELSE NilPicker

\* the value a successful call of op with fn assigns to portPicker
SlotOf(op, fn) == IF op = "pergroup" THEN PerGroup(fn) ELSE Uniform(fn)

\* portPicker(groupName); calling the nil function panics
CallSlot(slot, groupName) ==
  IF slot.fn = NilFn THEN "panic" ELSE CallFn(slot.fn, groupName)

\* getPeers without the test of pk
GetPeersUnchecked(slot, groupName) ==
  IF slot = NilSlot THEN NoPeers ELSE CallSlot(slot, groupName)

\* getPeers(groupName)
GetPeers(slot, groupName) ==
  IF slot = NilSlot THEN NoPeers
  ELSE LET pk == CallSlot(slot, groupName)
       IN  IF pk = NilPicker THEN NoPeers ELSE pk

\* NoPeers.PickPeer(key): the zero values of (peer ProtoGetter, ok bool)
NoPeersPickPeer(k) == <<NilGetter, FALSE>>

\* the record of a finished registration call
RegEntry(op, fn, ok, before, after) ==
  [op |-> op, fn |-> fn, ok |-> ok, before |-> before, after |-> after]

\* a whole call of RegisterPeerPicker(fn) or RegisterPerGroupPeerPicker(fn)
Register(op, fn) ==
  /\ Len(regLog) < MaxRegs
  /\ IF portPicker # NilSlot
     THEN /\ regLog' = Append(regLog, RegEntry(op, fn, FALSE, portPicker, portPicker))
          /\ UNCHANGED portPicker
     ELSE /\ portPicker' = SlotOf(op, fn)
          /\ regLog' = Append(regLog, RegEntry(op, fn, TRUE, portPicker, SlotOf(op, fn)))
  /\ UNCHANGED <<httpPoolMade, lastPeers, rpc, rop, rarg, notReg>>

RegisterPeerPicker(fn) == Register("uniform", fn)

RegisterPerGroupPeerPicker(fn) == Register("pergroup", fn)

\* getPeers(groupName), and PickPeer(k) on a NoPeers result
GetPeersCall(groupName, k) ==
  /\ LET pk == GetPeers(portPicker, groupName)
     IN  lastPeers' = [called |-> TRUE, slot |-> portPicker, group |-> groupName, pk |-> pk,
                       pick |-> IF pk = NoPeers THEN NoPeersPickPeer(k)
                                ELSE <<NilGetter, FALSE>>]
  /\ UNCHANGED <<portPicker, httpPoolMade, regLog, rpc, rop, rarg, notReg>>

InitReg == RegIdle /\ SFIdle /\ hashTab = KeyHashTab /\ RingIdle /\ PoolIdle /\ GetIdle /\ SinkIdle

NextReg ==
  \/ \E fn \in UniformFns : RegisterPeerPicker(fn)
  \/ \E fn \in PerGroupFns : RegisterPerGroupPeerPicker(fn)
  \/ \E groupName \in Groups, k \in Keys : GetPeersCall(groupName, k)

SpecReg == InitReg /\ [][NextReg]_vars

\* The same calls made by several goroutines, one call each.  Nothing guards
\* portPicker and httpPoolMade, so the test and the assignment of a call are
\* two steps, and steps of other goroutines come between them.

\* a goroutine calls RegisterPeerPicker(fn) or RegisterPerGroupPeerPicker(fn)
RegCall(p, op, fn) ==
  /\ rpc[p] = "idle"
  /\ rpc' = [rpc EXCEPT ![p] = "check"]
  /\ rop' = [rop EXCEPT ![p] = op]
  /\ rarg' = [rarg EXCEPT ![p] = fn]
  /\ UNCHANGED <<portPicker, httpPoolMade, regLog, lastPeers, notReg>>

\* a goroutine calls NewHTTPPoolOpts(self, o); its picker function returns
\* the pool
PoolCall(p) ==
  /\ rpc[p] = "idle"
  /\ rpc' = [rpc EXCEPT ![p] = "poolcheck"]
  /\ rop' = [rop EXCEPT ![p] = "pool"]
  /\ rarg' = [rarg EXCEPT ![p] = "always"]
  /\ UNCHANGED <<portPicker, httpPoolMade, regLog, lastPeers, notReg>>

\* if httpPoolMade { panic(...) }
PoolCheck(p) ==
  /\ rpc[p] = "poolcheck"
  /\ IF httpPoolMade
     THEN /\ rpc' = [rpc EXCEPT ![p] = "panicked"]
          /\ regLog' = Append(regLog, RegEntry("pool", rarg[p], FALSE, portPicker, portPicker))
     ELSE /\ rpc' = [rpc EXCEPT ![p] = "poolwrite"]
          /\ UNCHANGED regLog
  /\ UNCHANGED <<portPicker, httpPoolMade, lastPeers, rop, rarg, notReg>>

\* httpPoolMade = true, the pool is built, RegisterPeerPicker is called
PoolWrite(p) ==
  /\ rpc[p] = "poolwrite"
  /\ httpPoolMade' = TRUE
  /\ rpc' = [rpc EXCEPT ![p] = "check"]
  /\ UNCHANGED <<portPicker, regLog, lastPeers, rop, rarg, notReg>>

\* if portPicker != nil { panic(...) }
RegCheck(p) ==
  /\ rpc[p] = "check"
  /\ IF portPicker # NilSlot
     THEN /\ rpc' = [rpc EXCEPT ![p] = "panicked"]
          /\ regLog' = Append(regLog, RegEntry(rop[p], rarg[p], FALSE, portPicker, portPicker))
     ELSE /\ rpc' = [rpc EXCEPT ![p] = "write"]
          /\ UNCHANGED regLog
  /\ UNCHANGED <<portPicker, httpPoolMade, lastPeers, rop, rarg, notReg>>

\* portPicker = ..., and the call returns
RegWrite(p) ==
  /\ rpc[p] = "write"
  /\ portPicker' = SlotOf(rop[p], rarg[p])
  /\ regLog' = Append(regLog, RegEntry(rop[p], rarg[p], TRUE, portPicker, SlotOf(rop[p], rarg[p])))
  /\ rpc' = [rpc EXCEPT ![p] = "done"]
  /\ UNCHANGED <<httpPoolMade, lastPeers, rop, rarg, notReg>>

NextRegConc ==
  \/ \E p \in RProcs, fn \in UniformFns : RegCall(p, "uniform", fn)
  \/ \E p \in RProcs, fn \in PerGroupFns : RegCall(p, "pergroup", fn)
  \/ \E p \in RProcs : PoolCall(p)
  \/ \E p \in RProcs : PoolCheck(p)
  \/ \E p \in RProcs : PoolWrite(p)
  \/ \E p \in RProcs : RegCheck(p)
  \/ \E p \in RProcs : RegWrite(p)

SpecRegConc == InitReg /\ [][NextRegConc]_vars

----------------------------------------------------------------------------
(***************************************************************************)
(* Sinks (sinks.go).  Every operation takes the heap and the sink and      *)
(* gives the heap and the sink after it, with the error it returns ("nil", *)
(* "err", or "panic" for a nil dereference).  proto.Marshal and            *)
(* proto.Unmarshal are the library's: a message is identified with its     *)
(* encoding, an encoding is valid when it is empty or starts with a        *)
(* non-zero byte, and a message that cannot be marshalled has ok = FALSE.  *)
(***************************************************************************)

\* the bytes of a slice, its capacity, and the bytes a ByteView stands for
Bytes(h, sl) == IF sl.buf = 0 THEN <<>> ELSE SubSeq(h[sl.buf], 1, sl.len)
Cap(h, sl) == IF sl.buf = 0 THEN 0 ELSE Len(h[sl.buf])
ViewBytes(h, v) == IF v.b.buf # 0 THEN Bytes(h, v.b) ELSE v.s

\* make([]byte, n) filled with content, and []byte(content): a new array
MakeBytes(h, content) ==
  [heap |-> Append(h, content), slice |-> [buf |-> Len(h) + 1, len |-> Len(content)]]

\* cloneBytes that returns its argument
CloneBytesShared(h, b) == [heap |-> h, slice |-> b]

\* cloneBytes(b)
CloneBytes(h, b) == MakeBytes(h, Bytes(h, b))

\* copy(dst, src): the heap after it and the number of bytes copied
Copy(h, dst, src) ==
  LET n == IF dst.len < Len(src) THEN dst.len ELSE Len(src)
  IN  [heap |-> IF n = 0 THEN h
                ELSE [h EXCEPT ![dst.buf] = [i \in DOMAIN @ |-> IF i <= n THEN src[i] ELSE @[i]]],
       n |-> n]

Messages ==
  {[ok |-> FALSE, enc |-> <<>>]}
    \cup {[ok |-> TRUE, enc |-> x] : x \in {y \in Contents : y = <<>> \/ y[1] # 0}}

\* proto.Marshal(m)
Marshal(h, pm) ==
  IF pm.ok THEN LET mk == MakeBytes(h, pm.enc)
                IN  [heap |-> mk.heap, slice |-> mk.slice, err |-> "nil"]
  ELSE [heap |-> h, slice |-> NilSlice, err |-> "err"]

\* proto.Unmarshal(b, dst) succeeds
CanUnmarshal(bytes) == bytes = <<>> \/ bytes[1] # 0

Res(h, sk, e) == [heap |-> h, sink |-> sk, err |-> e, via |-> "none"]

\* stringSink.SetString that leaves s.v.b as it was
StringSinkSetStringKeepsB(h, sk, v) ==
  Res(h, [sk EXCEPT !.v.s = v, !.sp = v], "nil")

StringSinkSetString(h, sk, v) ==
  Res(h, [sk EXCEPT !.v = [b |-> NilSlice, s |-> v], !.sp = v], "nil")

StringSinkSetBytes(h, sk, b) == StringSinkSetString(h, sk, Bytes(h, b))

StringSinkSetProto(h, sk, pm) ==
  LET r == Marshal(h, pm)
  IN  IF r.err # "nil" THEN Res(h, sk, r.err)
      ELSE Res(r.heap, [sk EXCEPT !.v.b = r.slice, !.sp = Bytes(r.heap, r.slice)], "nil")

ByteViewSinkSetView(h, sk, v) == Res(h, [sk EXCEPT !.dstView = v], "nil")

ByteViewSinkSetProto(h, sk, pm) ==
  LET r == Marshal(h, pm)
  IN  IF r.err # "nil" THEN Res(h, sk, r.err)
      ELSE Res(r.heap, [sk EXCEPT !.dstView = [b |-> r.slice, s |-> <<>>]], "nil")

ByteViewSinkSetBytes(h, sk, b) ==
  LET cl == CloneBytes(h, b)
  IN  Res(cl.heap, [sk EXCEPT !.dstView = [b |-> cl.slice, s |-> <<>>]], "nil")

ByteViewSinkSetString(h, sk, v) ==
  Res(h, [sk EXCEPT !.dstView = [b |-> NilSlice, s |-> v]], "nil")

ProtoSinkSetBytes(h, sk, b) ==
  IF ~CanUnmarshal(Bytes(h, b)) THEN Res(h, sk, "err")
  ELSE LET cl == CloneBytes(h, b)
       IN  Res(cl.heap, [sk EXCEPT !.msg = Bytes(h, b), !.v = [b |-> cl.slice, s |-> <<>>]], "nil")

ProtoSinkSetString(h, sk, v) ==
  LET mk == MakeBytes(h, v)
  IN  IF ~CanUnmarshal(v) THEN Res(mk.heap, sk, "err")
      ELSE Res(mk.heap, [sk EXCEPT !.msg = v, !.v = [b |-> mk.slice, s |-> <<>>]], "nil")

ProtoSinkSetProto(h, sk, pm) ==
  LET r == Marshal(h, pm)
  IN  IF r.err # "nil" THEN Res(h, sk, r.err)
      ELSE IF ~CanUnmarshal(pm.enc) THEN Res(r.heap, sk, "err")
      ELSE Res(r.heap, [sk EXCEPT !.msg = pm.enc, !.v = [b |-> r.slice, s |-> <<>>]], "nil")

AllocBytesSinkSetView(h, sk, v) ==
  IF sk.dstNil THEN Res(h, sk, "panic")
  ELSE LET cl == IF v.b.buf # 0 THEN CloneBytes(h, v.b) ELSE MakeBytes(h, v.s)
       IN  Res(cl.heap, [sk EXCEPT !.dst = cl.slice, !.v = v], "nil")

\* allocBytesSink.setBytesOwned that stores b without the second copy
AllocBytesSinkSetBytesOwnedShared(h, sk, b) ==
  IF sk.dstNil THEN Res(h, sk, "err")
  ELSE Res(h, [sk EXCEPT !.dst = b, !.v = [b |-> b, s |-> <<>>]], "nil")

AllocBytesSinkSetBytesOwned(h, sk, b) ==
  IF sk.dstNil THEN Res(h, sk, "err")
  ELSE LET cl == CloneBytes(h, b)
       IN  Res(cl.heap, [sk EXCEPT !.dst = cl.slice, !.v = [b |-> b, s |-> <<>>]], "nil")

AllocBytesSinkSetProto(h, sk, pm) ==
  LET r == Marshal(h, pm)
  IN  IF r.err # "nil" THEN Res(h, sk, r.err)
      ELSE AllocBytesSinkSetBytesOwned(r.heap, sk, r.slice)

AllocBytesSinkSetBytes(h, sk, b) ==
  LET cl == CloneBytes(h, b)
  IN  AllocBytesSinkSetBytesOwned(cl.heap, sk, cl.slice)

AllocBytesSinkSetString(h, sk, v) ==
  IF sk.dstNil THEN Res(h, sk, "err")
  ELSE LET mk == MakeBytes(h, v)
       IN  Res(mk.heap, [sk EXCEPT !.dst = mk.slice, !.v = [b |-> NilSlice, s |-> v]], "nil")

\* truncBytesSink.setBytesOwned that never shrinks *dst
TruncBytesSinkSetBytesOwnedNoShrink(h, sk, b) ==
  IF sk.dstNil THEN Res(h, sk, "err")
  ELSE LET cp == Copy(h, sk.dst, Bytes(h, b))
       IN  Res(cp.heap, [sk EXCEPT !.v = [b |-> b, s |-> <<>>]], "nil")

TruncBytesSinkSetBytesOwned(h, sk, b) ==
  IF sk.dstNil THEN Res(h, sk, "err")
  ELSE LET cp == Copy(h, sk.dst, Bytes(h, b))
       IN  Res(cp.heap,
               [sk EXCEPT !.dst = IF cp.n < sk.dst.len THEN [sk.dst EXCEPT !.len = cp.n]
                                  ELSE sk.dst,
                          !.v = [b |-> b, s |-> <<>>]],
               "nil")

TruncBytesSinkSetProto(h, sk, pm) ==
  LET r == Marshal(h, pm)
  IN  IF r.err # "nil" THEN Res(h, sk, r.err)
      ELSE TruncBytesSinkSetBytesOwned(r.heap, sk, r.slice)

TruncBytesSinkSetBytes(h, sk, b) ==
  LET cl == CloneBytes(h, b)
  IN  TruncBytesSinkSetBytesOwned(cl.heap, sk, cl.slice)

TruncBytesSinkSetString(h, sk, v) ==
  IF sk.dstNil THEN Res(h, sk, "err")
  ELSE LET cp == Copy(h, sk.dst, v)
       IN  Res(cp.heap,
               [sk EXCEPT !.dst = IF cp.n < sk.dst.len THEN [sk.dst EXCEPT !.len = cp.n]
                                  ELSE sk.dst,
                          !.v = [b |-> NilSlice, s |-> v]],
               "nil")

\* the methods of the Sink interface, by the type of the sink
SetString(h, sk, v) ==
  CASE sk.kind = "string" -> StringSinkSetString(h, sk, v)
    [] sk.kind = "byteview" -> ByteViewSinkSetString(h, sk, v)
    [] sk.kind = "proto" -> ProtoSinkSetString(h, sk, v)
    [] sk.kind = "allocbytes" -> AllocBytesSinkSetString(h, sk, v)
    [] sk.kind = "truncbytes" -> TruncBytesSinkSetString(h, sk, v)

SetBytes(h, sk, b) ==
  CASE sk.kind = "string" -> StringSinkSetBytes(h, sk, b)
    [] sk.kind = "byteview" -> ByteViewSinkSetBytes(h, sk, b)
    [] sk.kind = "proto" -> ProtoSinkSetBytes(h, sk, b)
    [] sk.kind = "allocbytes" -> AllocBytesSinkSetBytes(h, sk, b)
    [] sk.kind = "truncbytes" -> TruncBytesSinkSetBytes(h, sk, b)

SetProto(h, sk, pm) ==
  CASE sk.kind = "string" -> StringSinkSetProto(h, sk, pm)
    [] sk.kind = "byteview" -> ByteViewSinkSetProto(h, sk, pm)
    [] sk.kind = "proto" -> ProtoSinkSetProto(h, sk, pm)
    [] sk.kind = "allocbytes" -> AllocBytesSinkSetProto(h, sk, pm)
    [] sk.kind = "truncbytes" -> TruncBytesSinkSetProto(h, sk, pm)

View(sk) == IF sk.kind = "byteview" THEN sk.dstView ELSE sk.v

\* the sink types that have a setView method
HasSetView(sk) == sk.kind \in {"byteview", "allocbytes"}

SetView(h, sk, v) ==
  IF sk.kind = "byteview" THEN ByteViewSinkSetView(h, sk, v)
  ELSE AllocBytesSinkSetView(h, sk, v)

\* setSinkView without the probe for setView
SetSinkViewNoProbe(h, sk, v) ==
  IF v.b.buf # 0 THEN [SetBytes(h, sk, v.b) EXCEPT !.via = "SetBytes"]
  ELSE [SetString(h, sk, v.s) EXCEPT !.via = "SetString"]

\* setSinkView(s, v); via names the method it called
SetSinkView(h, sk, v) ==
  IF HasSetView(sk) THEN [SetView(h, sk, v) EXCEPT !.via = "setView"]
  ELSE IF v.b.buf # 0 THEN [SetBytes(h, sk, v.b) EXCEPT !.via = "SetBytes"]
  ELSE [SetString(h, sk, v.s) EXCEPT !.via = "SetString"]

\* the constructors: StringSink(sp), ByteViewSink(dst), ProtoSink(m),
\* AllocatingByteSliceSink(dst) and TruncatingByteSliceSink(dst), where dst
\* may be nil and *dst is nil or has a length up to its capacity
SinkNew ==
  /\ \E kind \in SinkKinds, dstNil \in BOOLEAN, cp \in 0..MaxLen, ln \in 0..MaxLen :
       /\ ln <= cp
       /\ dstNil => kind \in {"allocbytes", "truncbytes"} /\ cp = 0
       /\ cp > 0 => kind = "truncbytes"
       /\ heap = IF cp > 0 THEN <<Fill(cp, 0)>> ELSE <<>>
       /\ sink = [ZeroSink(kind) EXCEPT !.dstNil = dstNil,
                                        !.dst = IF cp > 0 THEN [buf |-> 1, len |-> ln]
                                                ELSE NilSlice]
  /\ lastCall = NoCall
  /\ argB = NilSlice
  /\ nSinkOps = 0
  /\ argMutated = FALSE
  /\ dstWritten = FALSE

\* the state after a call on the sink
Called(op, r, content, viewB) ==
  /\ nSinkOps < SinkOps
  /\ nSinkOps' = nSinkOps + 1
  /\ heap' = r.heap
  /\ sink' = r.sink
  /\ lastCall' = [op |-> op, ok |-> (r.err = "nil"), content |-> content, via |-> r.via,
                  viewB |-> viewB, dstLen |-> sink.dst.len, dstCap |-> Cap(heap, sink.dst),
                  prevOk |-> lastCall.ok, prevContent |-> lastCall.content,
                  err |-> r.err,
                  viewKept |-> /\ View(r.sink) = View(sink)
                               /\ ViewBytes(r.heap, View(r.sink)) = ViewBytes(heap, View(sink))]
  /\ argMutated' = FALSE
  /\ dstWritten' = FALSE
  /\ UNCHANGED notSink

\* s.SetString(v)
CallSetString(v) ==
  /\ Called("SetString", SetString(heap, sink, v), v, FALSE)
  /\ argB' = NilSlice

\* s.SetBytes(b), where b is a slice of the caller's or, when own is FALSE,
\* the slice *dst itself
CallSetBytes(content, own) ==
  /\ ~own => sink.kind \in {"allocbytes", "truncbytes"} /\ ~sink.dstNil /\ content = Bytes(heap, sink.dst)
  /\ LET arg == IF own THEN MakeBytes(heap, content) ELSE [heap |-> heap, slice |-> sink.dst]
     IN  /\ Called("SetBytes", SetBytes(arg.heap, sink, arg.slice), content, TRUE)
         /\ argB' = arg.slice

\* s.SetProto(m)
CallSetProto(pm) ==
  /\ Called("SetProto", SetProto(heap, sink, pm), pm.enc, FALSE)
  /\ argB' = NilSlice

\* setSinkView(s, v) with a view of the cache, byte-backed or string-backed
CallSetSinkView(content, viewB) ==
  /\ LET arg == IF viewB THEN MakeBytes(heap, content) ELSE [heap |-> heap, slice |-> NilSlice]
         v == [b |-> arg.slice, s |-> IF viewB THEN <<>> ELSE content]
     IN  Called("setSinkView", SetSinkView(arg.heap, sink, v), content, viewB)
  /\ argB' = NilSlice

Flip(bytes) == [i \in DOMAIN bytes |-> 1 - bytes[i]]

\* the caller changes the bytes of the slice it passed to SetBytes
CallerMutatesArg ==
  /\ argB.len > 0
  /\ ~argMutated
  /\ heap' = [heap EXCEPT ![argB.buf] = Flip(@)]
  /\ argMutated' = TRUE
  /\ UNCHANGED <<sink, lastCall, argB, nSinkOps, dstWritten, notSink>>

\* the caller writes to the bytes of *dst
CallerWritesDst ==
  /\ sink.kind \in {"allocbytes", "truncbytes"}
  /\ sink.dst.len > 0
  /\ ~dstWritten
  /\ heap' = [heap EXCEPT ![sink.dst.buf] = Flip(@)]
  /\ dstWritten' = TRUE
  /\ UNCHANGED <<sink, lastCall, argB, nSinkOps, argMutated, notSink>>

InitSink == SinkNew /\ SFIdle /\ hashTab = KeyHashTab /\ RingIdle /\ PoolIdle /\ GetIdle /\ RegIdle

NextSink ==
  \/ \E v \in Contents : CallSetString(v)
  \/ \E content \in Contents, own \in BOOLEAN : CallSetBytes(content, own)
  \/ \E pm \in Messages : CallSetProto(pm)
  \/ \E content \in Contents, viewB \in BOOLEAN : CallSetSinkView(content, viewB)
  \/ CallerMutatesArg
  \/ CallerWritesDst

SpecSink == InitSink /\ [][NextSink]_vars

----------------------------------------------------------------------------
(***************************************************************************)
(* The ring on its own: New, then any Add and Get calls                    *)
(***************************************************************************)

InitRing == RingNew /\ hashTab = KeyHashTab /\ SFIdle /\ PoolIdle /\ GetIdle /\ RegIdle /\ SinkIdle

NextRing ==
  \/ \E ps \in PeerLists(MaxArgs) : RingAdd(ps)
  \/ \E k \in LookupKeys : RingGet(k)

SpecRing == InitRing /\ [][NextRing]_vars

----------------------------------------------------------------------------
(***************************************************************************)
(* The pool on its own: NewHTTPPoolOpts, then any Set and PickPeer calls   *)
(***************************************************************************)

InitPool == PoolNew /\ hashTab = PoolHashTab /\ SFIdle /\ RingIdle /\ GetIdle /\ RegIdle /\ SinkIdle

NextPool ==
  \/ \E p \in PProcs, ps \in SetArgs(MaxArgs) : SetLock(p, ps)
  \/ \E p \in PProcs : SetNew(p)
  \/ \E p \in PProcs : SetAdd(p)
  \/ \E p \in PProcs : SetGetters(p)
  \/ \E p \in PProcs : SetUnlock(p)
  \/ \E p \in PProcs, k \in LookupKeys : PickLock(p, k)
  \/ \E p \in PProcs : PickRing(p)
  \/ \E p \in PProcs : PickGetter(p)
  \/ \E p \in PProcs : PickUnlock(p)
  \/ \E p \in PProcs : PickFinish(p)

SpecPool == InitPool /\ [][NextPool]_vars

----------------------------------------------------------------------------
(***************************************************************************)
(* Properties of consistenthash.Map                                        *)
(***************************************************************************)

SeqRange(sq) == {sq[n] : n \in 1..Len(sq)}
MinOf(S) == CHOOSE x \in S : \A y \in S : x <= y

\* the ring hash that decides the owner of a key with hash hk: the least one
\* that is >= hk, or the smallest one when there is none
OwnerHash(mp, hk) ==
  LET geq == {hv \in SeqRange(mp.keys) : hv >= hk}
  IN  IF geq # {} THEN MinOf(geq) ELSE MinOf(SeqRange(mp.keys))

\* C5: Get returns "" on an empty ring; otherwise the peer that owns the least
\* ring hash >= hash(key), and the owner of the smallest ring hash when no
\* ring hash is >= hash(key).
C5_GetReturnsSuccessor ==
  lookup # <<>> =>
    IF Len(ring.keys) = 0 THEN lookup[2] = EmptyStr
    ELSE lookup[2] = ring.hashMap[OwnerHash(ring, hashTab[lookup[1]])]

\* a Get on a ring of several peers whose key hashes above every ring hash
C5_Witness ==
  /\ lookup # <<>>
  /\ Cardinality(SeqRange(added)) >= 2
  /\ Len(ring.keys) >= 2
  /\ \A hv \in SeqRange(ring.keys) : hv < hashTab[lookup[1]]
  /\ lookup[2] \in Peers

\* no two different (replica index, peer) pairs hash to the same value
NoCollision(replicas, ps, h) ==
  \A p, q \in ps : \A i, j \in 0..(replicas - 1) :
    <<i, p>> # <<j, q>> => h[ReplicaStr(i, p)] # h[ReplicaStr(j, q)]

\* the peers of sq in the fixed order, each as often as in sq
RECURSIVE CanonFrom(_, _)
CanonFrom(sq, n) ==
  IF n > Len(PeerOrder) THEN <<>>
  ELSE SelectSeq(sq, LAMBDA x : x = PeerOrder[n]) \o CanonFrom(sq, n + 1)
Canon(sq) == CanonFrom(sq, 1)

\* C6: without hash collisions, Get(k) depends only on the multiset of the
\* peers added: the ring gives every key the owner that a ring built by one
\* Add of the same peers in a fixed order gives it.
C6_GetIndependentOfAddOrder ==
  NoCollision(ring.replicas, SeqRange(added), hashTab) =>
    \A k \in LookupKeys :
      Get(ring, k, hashTab) = Get(Add(New(ring.replicas), Canon(added), hashTab), k, hashTab)

\* a collision-free ring of several peers that were added out of order, one of
\* them twice
C6_Witness ==
  /\ NoCollision(ring.replicas, SeqRange(added), hashTab)
  /\ Len(ring.keys) >= 3
  /\ Cardinality(SeqRange(added)) = 2
  /\ added # Canon(added)

\* sq without the peer q
Without(sq, q) == SelectSeq(sq, LAMBDA x : x # q)

\* C7: without hash collisions, the ring over the added peers gives every key
\* either to a peer q or to the owner the key has in the ring over the added
\* peers other than q: putting q into a ring moves keys only to q.
C7_AddMovesKeysOnlyToNewPeer ==
  NoCollision(ring.replicas, SeqRange(added), hashTab) =>
    \A q \in SeqRange(added) : \A k \in LookupKeys :
      LET small == Add(New(ring.replicas), Without(added, q), hashTab)
      IN  \/ Get(ring, k, hashTab) = q
          \/ Get(ring, k, hashTab) = Get(small, k, hashTab)

\* a collision-free ring of three peers where the last peer added took one key
\* from another peer and left one key where it was
C7_Witness ==
  /\ NoCollision(ring.replicas, SeqRange(added), hashTab)
  /\ Cardinality(SeqRange(added)) = 3
  /\ LET q == added[Len(added)]
         small == Add(New(ring.replicas), Without(added, q), hashTab)
     IN  /\ \E k \in LookupKeys :
               Get(ring, k, hashTab) = q /\ Get(small, k, hashTab) # q
         /\ \E k \in LookupKeys :
               Get(ring, k, hashTab) # q /\ Get(small, k, hashTab) = Get(ring, k, hashTab)

\* the positions in added of the peers that have a replica hashing to hv
Writers(hv) ==
  {n \in 1..Len(added) :
     \E i \in 0..(ring.replicas - 1) : hashTab[ReplicaStr(i, added[n])] = hv}
FirstWriter(hv) == added[CHOOSE n \in Writers(hv) : \A n2 \in Writers(hv) : n <= n2]
LastWriter(hv) == added[CHOOSE n \in Writers(hv) : \A n2 \in Writers(hv) : n >= n2]

\* C8 as claimed: the peer added first owns a ring hash that several peers
\* produce, and Get of a key that maps to that hash returns that peer.
C8_FirstWriterWins ==
  /\ \A hv \in SeqRange(ring.keys) : ring.hashMap[hv] = FirstWriter(hv)
  /\ (lookup # <<>> /\ Len(ring.keys) > 0) =>
        lookup[2] = FirstWriter(OwnerHash(ring, hashTab[lookup[1]]))

\* C8 amended: the peer added last owns a ring hash that several peers
\* produce, and Get of a key that maps to that hash returns that peer.
C8_LastWriterWins ==
  /\ \A hv \in SeqRange(ring.keys) : ring.hashMap[hv] = LastWriter(hv)
  /\ (lookup # <<>> /\ Len(ring.keys) > 0) =>
        lookup[2] = LastWriter(OwnerHash(ring, hashTab[lookup[1]]))

\* a Get of a key that maps to a ring hash produced by two different peers
C8_Witness ==
  /\ lookup # <<>>
  /\ Len(ring.keys) > 0
  /\ LET hv == OwnerHash(ring, hashTab[lookup[1]])
     IN  /\ FirstWriter(hv) # LastWriter(hv)
         /\ lookup[2] = LastWriter(hv)

----------------------------------------------------------------------------
(***************************************************************************)
(* Properties of HTTPPool                                                  *)
(***************************************************************************)

\* C9: PickPeer returns (nil, false) when the pool's ring is empty or the
\* ring owner of the key is the pool's own URL; otherwise it returns
\* (getter, true) with the non-nil getter registered for the ring owner.
\* Stated where PickPeer has its result and still holds the mutex.
C9_PickPeerReturnsOwnerGetter ==
  \A p \in PProcs :
    ppc[p] = "pickunlock" =>
      LET owner == Get(poolPeers, parg[p], hashTab)
      IN  IF IsEmpty(poolPeers) \/ owner = SelfURL
          THEN pret[p] = <<NilGetter, FALSE>>
          ELSE /\ pret[p][2] = TRUE
               /\ pret[p][1] # NilGetter
               /\ owner \in DOMAIN httpGetters
               /\ pret[p][1] = httpGetters[owner]
               /\ pret[p][1].baseURL = owner \o BasePath

\* after two Set calls, the last one with the pool's own URL among the peers,
\* PickPeer has found a remote owner
C9_Witness ==
  \E p \in PProcs :
    /\ ppc[p] = "pickunlock"
    /\ pret[p][2] = TRUE
    /\ lastSet.id = 2
    /\ SelfURL \in DOMAIN httpGetters

\* what PickPeer(k) returns on the pool as the Set call with peers args and
\* serial number id leaves it
PickOf(args, id, k) ==
  LET rg == Add(New(poolReplicas), args, hashTab)
      gs == MakeGetters(args, id)
      owner == Get(rg, k, hashTab)
  IN  IF IsEmpty(rg) \/ owner = SelfURL THEN <<NilGetter, FALSE>>
      ELSE <<GetterOf(gs, owner), TRUE>>

\* C10: in every interleaving, the result of a PickPeer call is the one
\* computed from the ring and the getters of one Set call, the last one that
\* returned before PickPeer took the mutex (or from the empty pool when there
\* is none), and the getter returned is that of a peer of this Set call.
C10_PickPeerSeesOneSet ==
  \A p \in PProcs :
    ppc[p] \in {"pickunlock", "pickdone"} =>
      /\ pret[p] = PickOf(snap[p].args, snap[p].id, parg[p])
      /\ pret[p][2] = TRUE =>
           \E n \in 1..Len(snap[p].args) :
             pret[p][1] = NewGetter(snap[p].args[n], snap[p].id)

\* a PickPeer that ran after a second Set call had replaced the peers by a
\* single remote peer has returned that peer's getter
C10_Witness ==
  \E p \in PProcs :
    /\ ppc[p] = "pickdone"
    /\ pret[p][2] = TRUE
    /\ snap[p].id = 2
    /\ Len(snap[p].args) = 1

----------------------------------------------------------------------------
(***************************************************************************)
(* Properties of Group.Get                                                 *)
(***************************************************************************)

\* two goroutines are inside Get for the same key at the same time
Concurrent(p, q) ==
  /\ p # q
  /\ pc[p] # "idle"
  /\ pc[q] # "idle"
  /\ key[p] = key[q]

\* the key of a goroutine is in neither cache
Uncached(p) == key[p] \notin CacheKeys(mainCache) \cup CacheKeys(hotCache)

\* C4 as stated: of two concurrent Get calls for one key that both missed the
\* caches, with the key still uncached, at most one had the backend loader
\* invoked on its behalf.
C4_LoaderAtMostOnce ==
  \A p, q \in Procs :
    Concurrent(p, q) /\ Uncached(p) /\ c[p] # c[q]
      => ~(c[p] \in ranLoader /\ c[q] \in ranLoader)

\* C4: of two concurrent Get calls for one key, the backend loader never runs
\* for both at the same time, and it is invoked for the later one only if the
\* load of the earlier one failed or its value is not cached any more
\* (cacheBytes <= 0, or evicted).
C4_LoaderOncePerRetainedLoad ==
  \A p, q \in Procs :
    Concurrent(p, q)
      => /\ ~(pc[p] = "inloader" /\ pc[q] = "inloader")
         /\ (c[p] \in ranLoader /\ c[q] \in ranLoader /\ c[p] < c[q])
              => c[p] \in lost

\* two concurrent Get calls for one key have both missed the caches and both
\* returned; the loader ran for the first, whose value is cached, and the
\* second, which ran its own load function, did not invoke the loader
C4_Witness ==
  \E p, q \in Procs :
    /\ Concurrent(p, q)
    /\ pc[p] = "done" /\ pc[q] = "done"
    /\ role[p] = "pioneer" /\ role[q] = "pioneer"
    /\ c[p] < c[q]
    /\ c[p] \in ranLoader \ lost
    /\ c[q] \notin ranLoader
    /\ ret[q] = <<c[p], NilErr>>

----------------------------------------------------------------------------
(***************************************************************************)
(* Properties of peer-picker registration                                  *)
(***************************************************************************)

\* C11 as stated: in any sequence of calls to RegisterPeerPicker and
\* RegisterPerGroupPeerPicker the first call succeeds, and every later call
\* panics and leaves portPicker unchanged.
C11_OnlyFirstRegistrationSucceeds ==
  \A n \in 1..Len(regLog) :
    IF n = 1 THEN regLog[n].ok
    ELSE ~regLog[n].ok /\ regLog[n].after = regLog[n].before

\* C12: getPeers(groupName) never returns nil, and when nothing is registered
\* or the registered function returns nil it returns NoPeers, whose PickPeer
\* returns (nil, false).
C12_GetPeersNeverNil ==
  lastPeers.called =>
    /\ lastPeers.pk # NilPicker
    /\ (lastPeers.slot = NilSlot \/ CallSlot(lastPeers.slot, lastPeers.group) = NilPicker)
         => /\ lastPeers.pk = NoPeers
            /\ lastPeers.pick = <<NilGetter, FALSE>>

\* getPeers was called after the registration of a function that returns nil
\* for the group
C12_Witness ==
  /\ lastPeers.called
  /\ lastPeers.slot # NilSlot
  /\ CallSlot(lastPeers.slot, lastPeers.group) = NilPicker
  /\ lastPeers.pk = NoPeers

\* C18 as stated: with the registration functions and NewHTTPPoolOpts called
\* from several goroutines (never with a nil function), at most one call
\* succeeds and portPicker is assigned only while it is nil.
C18_SlotIsWriteOnce ==
  (\A n \in 1..Len(regLog) : regLog[n].fn # NilFn)
    => /\ Cardinality({n \in 1..Len(regLog) : regLog[n].ok}) <= 1
       /\ \A n \in 1..Len(regLog) : regLog[n].ok => regLog[n].before = NilSlot

----------------------------------------------------------------------------
(***************************************************************************)
(* Properties of sinks                                                     *)
(***************************************************************************)

MinLen(a, b) == IF a < b THEN a ELSE b

SetterOps == {"SetString", "SetBytes", "SetProto"}

\* C13: for every sink, after a successful SetBytes(b) the ByteView of view()
\* has the bytes b had at the call, whatever the caller does to b afterwards.
C13_SetBytesViewIsCopy ==
  lastCall.op = "SetBytes" /\ lastCall.ok
    => ViewBytes(heap, View(sink)) = lastCall.content

\* SetBytes(b) succeeded and the caller has then changed the bytes of b
C13_Witness ==
  /\ lastCall.op = "SetBytes"
  /\ lastCall.ok
  /\ argMutated
  /\ Bytes(heap, argB) # lastCall.content
  /\ ViewBytes(heap, View(sink)) = lastCall.content

\* C14: for AllocatingByteSliceSink and TruncatingByteSliceSink, *dst never
\* shares its array with the buffer of the sink's ByteView, and a write to
\* *dst does not change the bytes of that ByteView.
C14_DstNeverSharesView ==
  sink.kind \in {"allocbytes", "truncbytes"}
    => /\ sink.dst.buf # 0 => sink.dst.buf # sink.v.b.buf
       /\ lastCall.ok => ViewBytes(heap, sink.v) = lastCall.content

\* the caller has written to *dst after a call that left a byte-backed view
C14_Witness ==
  /\ sink.kind \in {"allocbytes", "truncbytes"}
  /\ lastCall.ok
  /\ dstWritten
  /\ sink.v.b.buf # 0
  /\ lastCall.content # <<>>

\* C15 as stated: after TruncatingByteSliceSink(dst).SetBytes(b), len(*dst) is
\* min(len(b), cap(*dst) before the call).
C15_TruncLenIsMinOfCap ==
  sink.kind = "truncbytes" /\ lastCall.op = "SetBytes" /\ lastCall.ok
    => sink.dst.len = MinLen(Len(lastCall.content), lastCall.dstCap)

\* C15: after TruncatingByteSliceSink(dst).SetBytes(b), len(*dst) is
\* min(len(b), len(*dst) before the call).
C15_TruncLenIsMinOfLen ==
  sink.kind = "truncbytes" /\ lastCall.op = "SetBytes" /\ lastCall.ok
    => sink.dst.len = MinLen(Len(lastCall.content), lastCall.dstLen)

\* SetBytes(b) on a truncating sink whose *dst was shorter than its capacity,
\* with b longer than *dst
C15_Witness ==
  /\ sink.kind = "truncbytes"
  /\ lastCall.op = "SetBytes"
  /\ lastCall.ok
  /\ lastCall.dstLen < lastCall.dstCap
  /\ Len(lastCall.content) > lastCall.dstLen
  /\ lastCall.dstLen > 0

\* C16: after a successful SetString, SetBytes or SetProto, view() has the
\* bytes that call delivered, and so has the destination of a StringSink, a
\* ByteViewSink and an AllocatingByteSliceSink (before the caller writes to it).
C16_LastWriteWins ==
  lastCall.op \in SetterOps /\ lastCall.ok
    => /\ ViewBytes(heap, View(sink)) = lastCall.content
       /\ sink.kind = "string" => sink.sp = lastCall.content
       /\ sink.kind = "byteview" => ViewBytes(heap, sink.dstView) = lastCall.content
       /\ sink.kind = "allocbytes" /\ ~dstWritten => Bytes(heap, sink.dst) = lastCall.content

\* two successful calls with different contents on one StringSink, the second
\* a setter
C16_Witness ==
  /\ sink.kind = "string"
  /\ lastCall.op \in SetterOps
  /\ lastCall.ok
  /\ lastCall.prevOk
  /\ lastCall.prevContent # lastCall.content
  /\ sink.sp = lastCall.content

\* C17: setSinkView calls setView on a ByteViewSink and an
\* AllocatingByteSliceSink, otherwise SetBytes for a byte-backed view and
\* SetString for a string-backed one; when it succeeds on a sink that is not a
\* ProtoSink, view() has the bytes of the view.
C17_SetSinkViewDispatch ==
  lastCall.op = "setSinkView"
    => /\ lastCall.via = IF sink.kind \in {"byteview", "allocbytes"} THEN "setView"
                         ELSE IF lastCall.viewB THEN "SetBytes" ELSE "SetString"
       /\ lastCall.ok /\ sink.kind # "proto"
            => ViewBytes(heap, View(sink)) = lastCall.content

\* setSinkView succeeded with a byte-backed view on a sink without setView
C17_Witness ==
  /\ lastCall.op = "setSinkView"
  /\ lastCall.ok
  /\ lastCall.via = "SetBytes"
  /\ sink.kind = "truncbytes"
  /\ lastCall.content # <<>>

----------------------------------------------------------------------------
(***************************************************************************)
(* Properties of singleflight.Group                                        *)
(***************************************************************************)

\* fn of goroutine p is executing
FnInFlight(p) == pc[p] = "fn"

\* C1: at most one execution of fn is in flight for a key at any time, and
\* while a fn is in flight its caller's entry is the one in the in-flight
\* map, so that no second caller for the key starts a fn of its own.
C1_OneFnPerKey ==
  /\ \A p, q \in Procs :
        (p # q /\ FnInFlight(p) /\ FnInFlight(q)) => key[p] # key[q]
  /\ \A p \in Procs :
        FnInFlight(p) => (key[p] \in DOMAIN m.tab /\ m.tab[key[p]] = c[p])

\* a second caller for the key has arrived while the first one's fn runs
C1_Witness ==
  \E p, q \in Procs :
    /\ FnInFlight(p)
    /\ pc[q] = "wait"
    /\ key[q] = key[p]
    /\ c[q] = c[p]

\* C2: a follower returns exactly the (value, error) pair that fn returned
\* for the entry it found, never an unset pair or that of another execution.
C2_FollowerSeesPioneerResult ==
  \A p \in Procs :
    (pc[p] = "done" /\ role[p] = "follower") =>
      /\ fnOut[c[p]] # <<>>
      /\ ret[p] = fnOut[c[p]]

\* a follower has returned a non-nil error of a pioneer whose call was not
\* the first one
C2_Witness ==
  \E p \in Procs :
    /\ pc[p] = "done"
    /\ role[p] = "follower"
    /\ ret[p][2] # NilErr
    /\ c[p] > 1

\* C3: under fair scheduling, when every fn returns, every Do call returns.
C3_EveryDoReturns ==
  \A p \in Procs : (pc[p] = "lock") ~> (pc[p] = "done")

\* a follower waits on the raised barrier of a pioneer whose fn is running
C3_Witness ==
  \E p, q \in Procs :
    /\ pc[p] = "wait"
    /\ calls[c[p]].wg > 0
    /\ c[q] = c[p]
    /\ FnInFlight(q)

\* C19: the pioneer never holds the mutex while its fn is running, and with
\* the fn of key "k1" running for ever every Do call for key "k2" still
\* returns.
C19_FnRunsOutsideMutex ==
  /\ [](\A p \in Procs : pc[p] = "fn" => mu # p)
  /\ \A q \in Procs : (pc[q] = "lock" /\ key[q] = "k2") ~> (pc[q] = "done")

\* the fns of two distinct keys are running at the same time
C19_Witness ==
  \E p, q \in Procs :
    /\ pc[p] = "fn"
    /\ pc[q] = "fn"
    /\ key[p] # key[q]
    /\ mu = NoProc

\* C20 as stated: no caller that is about to wait on a pioneer's barrier holds
\* the mutex while that pioneer's fn is running.
C20_FollowerNeverLocksDuringFn ==
  \A p, q \in Procs :
    pc[p] = "fn" /\ p # q /\ key[q] = key[p]
      => ~(mu = q /\ pc[q] = "locked")

\* C20: a follower never holds the mutex while it waits on the barrier: it
\* takes the mutex only to look up the call and releases it before it waits.
C20_FollowerWaitsWithoutMutex ==
  \A q \in Procs : pc[q] = "wait" => mu # q

\* a follower waits on the barrier of a pioneer whose fn is running
C20_Witness ==
  \E p, q \in Procs :
    /\ pc[p] = "fn"
    /\ pc[q] = "wait"
    /\ c[q] = c[p]
    /\ role[q] = "follower"

\* a pioneer that has registered its call and has not executed its delete
Registered(p) ==
  role[p] = "pioneer" /\ pc[p] \in {"fn", "fndone", "relock", "delete", "panicked"}

\* no Do call is in progress
NoDoInProgress == \A p \in Procs : pc[p] \in {"idle", "done", "panicked"}

\* C21 as stated: the map has an entry for k exactly while a pioneer for k is
\* registered and has not deleted; the entry is deleted only after the barrier
\* is lowered and the result stored, by the pioneer that owns it; and the map
\* is empty whenever no Do call is in progress.
C21_MapHoldsInFlightCalls ==
  /\ \A k \in Keys :
       k \in DOMAIN m.tab <=> \E p \in Procs : Registered(p) /\ key[p] = k
  /\ \A p \in Procs :
       pc[p] = "delete" => /\ calls[c[p]].wg = 0
                           /\ fnOut[c[p]] # <<>>
                           /\ key[p] \in DOMAIN m.tab
                           /\ m.tab[key[p]] = c[p]
  /\ NoDoInProgress => DOMAIN m.tab = {}

\* C23: once the fn of a pioneer has panicked, the barrier of its call stays
\* up and its entry stays in the map, no call for that key registers again,
\* no caller attached to that call returns, and every Do call for the other
\* key still returns.
C23_PanicBlocksKeyForEver ==
  /\ [](\A p \in Procs :
          pc[p] = "panicked"
            => /\ calls[c[p]].wg = 1
               /\ key[p] \in DOMAIN m.tab
               /\ m.tab[key[p]] = c[p]
               /\ \A q \in Procs :
                    key[q] = key[p] /\ c[q] # 0
                      => /\ c[q] <= c[p]
                         /\ c[q] = c[p] /\ q # p => pc[q] = "wait")
  /\ \A q \in Procs : (pc[q] = "lock" /\ key[q] # PanicKey) ~> (pc[q] = "done")

\* a follower waits on the call of a pioneer whose fn has panicked
C23_Witness ==
  \E p, q \in Procs :
    /\ pc[p] = "panicked"
    /\ pc[q] = "wait"
    /\ role[q] = "follower"
    /\ c[q] = c[p]

\* C22: Do does not memoize. A caller that looks the key up while no pioneer
\* for it is between registering and deleting executes fn itself, on a call of
\* its own, and fn runs in no other step; a caller that looks the key up
\* while such a pioneer exists, even one whose barrier is already lowered,
\* takes that pioneer's call and does not execute fn.
C22_DoDoesNotMemoize ==
  [][\A q \in Procs :
       /\ pc[q] = "locked" /\ pc'[q] # "locked"
            => IF \E p \in Procs : Registered(p) /\ key[p] = key[q]
               THEN /\ pc'[q] = "wait"
                    /\ \E p \in Procs :
                         Registered(p) /\ key[p] = key[q] /\ c'[q] = c[p]
                    /\ fnRuns' = fnRuns
               ELSE /\ pc'[q] = "fn"
                    /\ c'[q] = Len(calls) + 1
                    /\ fnRuns' = fnRuns + 1
       /\ fnRuns' # fnRuns => \E p \in Procs : pc[p] = "locked" /\ pc'[p] = "fn"]_vars

\* a pioneer executes fn for a key whose previous pioneer has finished and
\* deleted its entry, next to a follower that reused the previous result
C22_Witness ==
  \E p, q, r \in Procs :
    /\ pc[p] = "fn"
    /\ pc[q] = "done" /\ role[q] = "pioneer"
    /\ key[q] = key[p]
    /\ c[q] < c[p]
    /\ pc[r] = "done" /\ role[r] = "follower"
    /\ c[r] = c[q]
    /\ ret[r] = fnOut[c[q]]

\* the peers added so far, as a set
AddedPeers == {added[n] : n \in 1..Len(added)}

\* C24: after any sequence of Add calls the ring keys are in ascending order
\* and every hash in the ring has an entry in hashMap that names an added
\* peer.
C24_RingSortedAndMapped ==
  /\ \A i \in 1..(Len(ring.keys) - 1) : ring.keys[i] <= ring.keys[i + 1]
  /\ \A i \in 1..Len(ring.keys) :
       /\ ring.keys[i] \in DOMAIN ring.hashMap
       /\ ring.hashMap[ring.keys[i]] \in AddedPeers

\* several Add calls whose hashes were appended out of order
C24_Witness ==
  /\ Len(added) >= 2
  /\ Len(ring.keys) >= 3
  /\ \E i \in 1..(Len(ring.keys) - 1) : ring.keys[i] < ring.keys[i + 1]
  /\ AddNoSort(New(ring.replicas), added, hashTab).keys # ring.keys

\* the hashes hash(decimal(i) + peer) of the replicas 0 .. replicas-1 of the
\* peers added, one for every time a peer was added
ReplicaSlots == (0..(ring.replicas - 1)) \X (1..Len(added))

\* C25: the ring holds, for every peer added and every time it was added,
\* exactly the replicas hashes hash(decimal(i) + peer), so its length is
\* replicas * (number of peers added, repeats counted); with replicas <= 0
\* the ring stays empty and Get returns "" for every key.
C25_RingHoldsReplicasPerPeer ==
  /\ ring.replicas > 0 =>
       /\ Len(ring.keys) = ring.replicas * Len(added)
       /\ \A x \in HashVals :
            Cardinality({i \in 1..Len(ring.keys) : ring.keys[i] = x})
              = Cardinality({sl \in ReplicaSlots :
                   HashOf(hashTab, ReplicaStr(sl[1], added[sl[2]])) = x})
  /\ ring.replicas <= 0 =>
       /\ ring.keys = <<>>
       /\ IsEmpty(ring)
       /\ \A k \in LookupKeys : Get(ring, k, hashTab) = EmptyStr
       /\ lookup # <<>> => lookup[2] = EmptyStr

\* a peer added twice to a ring of two replicas
C25_Witness ==
  /\ ring.replicas = 2
  /\ \E i, j \in 1..Len(added) : i # j /\ added[i] = added[j]
  /\ Len(ring.keys) = 2 * Len(added)

\* peers added to a ring of no replicas, and a key looked up
C25_WitnessNoReplicas ==
  /\ ring.replicas < 0
  /\ Len(added) >= 2
  /\ lookup # <<>>
  /\ lookup[2] = EmptyStr

\* C26 as stated: the ByteView a sink's view() returns never has both a
\* non-nil byte buffer and a non-empty string.
C26_ViewHasOneRepresentation ==
  ~(View(sink).b.buf # 0 /\ View(sink).s # <<>>)

\* C27 as stated: a setter that fails returns an error value and leaves the
\* view as it was, and on an AllocatingByteSliceSink or
\* TruncatingByteSliceSink made with a nil destination SetBytes, SetString,
\* SetProto and setSinkView all return an error.
C27_FailingSetterReturnsError ==
  lastCall.op # "none" =>
    /\ ~lastCall.ok => lastCall.err = "err" /\ lastCall.viewKept
    /\ sink.dstNil => lastCall.err = "err"

====
